---- MODULE Spec2Model ----
(***************************************************************************)
(* Model of the unstructured-grid conversion engine: the VTU codec         *)
(* (io_vtu.py) and the PolyMesh codec (io_polymesh.py) acting on the       *)
(* session's topology lists ugverts / ugfaces / ugcells / ugboundaries.    *)
(*                                                                         *)
(* Python lists are sequences; every index stored in the data is 0-based   *)
(* as in the source and is shifted by one where a sequence is accessed.    *)
(* None is the integer -1 wherever the source keeps an index or None.      *)
(***************************************************************************)
EXTENDS Integers, Sequences, FiniteSets, TLC

VARIABLES
    text,           \* io_vtu: the text read_vtu_files returned to execute
    report,         \* the last self.report of an operator
    raised,         \* the exception that ended the last operator, if any
    pc,             \* position of the VTU import
    vtu,            \* io_vtu: data lists and loop locals of vtu_datalists_to_ugdata
    ugverts,        \* ug.ugverts
    ugfaces,        \* ug.ugfaces
    ugcells,        \* ug.ugcells
    ugboundaries,   \* ug.ugboundaries
    facemap,        \* io_vtu: facemap of vtu_datalists_to_ugdata
    vtuout,         \* io_vtu: what write_vtu generated
    mesh,           \* the cells the imported VTU file describes
    fisarg,         \* io_vtu: the argument of a call of get_polyhedron_fis
    fisout,         \* io_vtu: what that call returned or raised
    callarg,        \* the function and the arguments of a call of a text function
    callret,        \* what that call returned
    ug_props,       \* io_polymesh: the five text blocks of the scene
    ob,             \* io_polymesh: the mesh object "Unstructured Grid"
    polymesh        \* the PolyMesh directory the import read

topoVars == <<ugverts, ugfaces, ugcells, ugboundaries>>
vtuVars == <<text, report, raised, pc, vtu, facemap, vtuout, mesh>>
fisVars == <<fisarg, fisout, callarg, callret>>
pmVars == <<ug_props, ob, polymesh>>
vars == <<text, report, raised, pc, vtu, ugverts, ugfaces, ugcells,
          ugboundaries, facemap, vtuout, mesh, fisarg, fisout,
          callarg, callret,
          ug_props, ob, polymesh>>

-----------------------------------------------------------------------------
(* Python helpers *)

None == -1

Min(a, b) == IF a < b THEN a ELSE b
Max(a, b) == IF a > b THEN a ELSE b

\* s[i] of a Python list, i >= 0
At(s, i) == s[i + 1]

\* a slice bound as Python normalises it against a list of n items
SliceBound(i, n) == IF i < 0 THEN Max(i + n, 0) ELSE Min(i, n)

\* s[a:b] of a Python list
Slice(s, a, b) ==
    LET lo == SliceBound(a, Len(s))
        hi == SliceBound(b, Len(s))
    IN  IF lo >= hi THEN <<>> ELSE SubSeq(s, lo + 1, hi)

RECURSIVE Concat(_)
\* the items of a list of lists, in order
Concat(ss) == IF ss = <<>> THEN <<>> ELSE Head(ss) \o Concat(Tail(ss))

\* min(S) and max(S)
SetMin(S) == CHOOSE x \in S : \A y \in S : x <= y
SetMax(S) == CHOOSE x \in S : \A y \in S : x >= y

Range(s) == {s[i] : i \in 1..Len(s)}

RECURSIVE running_sum(_, _)
\* the list of the running sums of a list, starting from acc
running_sum(s, acc) ==
    IF s = <<>> THEN <<>>
    ELSE <<acc + Head(s)>> \o running_sum(Tail(s), acc + Head(s))

NoException == [type |-> "", msg |-> "", arg |-> ""]
Exception(t, m, a) == [type |-> t, msg |-> m, arg |-> a]

NoReport == [level |-> "", msg |-> "", arg |-> ""]
Report(l, m, a) == [level |-> l, msg |-> m, arg |-> a]

-----------------------------------------------------------------------------
(* Bounds and inputs *)

\* the most cells a VTU file holds
MaxCells == 3

\* the most lines of declarations a VTU text holds
MaxLines == 2

\* the most numbers a polyhedron face list handed to get_polyhedron_fis holds
MaxStream == 5

\* the largest number in such a list
MaxToken == 2

\* the most faces of a PolyMesh directory or topology
MaxPmFaces == 3

\* the most patches of a PolyMesh directory or topology
MaxPatches == 2

\* the number of connectivities of the data lists given to the cell loop
MaxConn == 4

\* the most vertices the editing of a session deletes
MaxDeletedVerts == 2

\* the most lines of a text given to a text function
MaxTextLines == 4

\* the most lines of an integer text
MaxScanLines == 5

\* the vertex indices the cells of the pool use
PoolVertices == 0..12

Polyhedron(vilist, nFaces, faces) ==
    [type |-> 42, vilist |-> vilist, nFaces |-> nFaces, faces |-> faces]
Archetype(type, vilist) ==
    [type |-> type, vilist |-> vilist, nFaces |-> 0, faces |-> <<>>]

\* The cells a VTU file is made of: three polyhedra that share the face on
\* vertices 0, 1, 2 in different windings, two tetrahedra that share it too,
\* a polyhedron without faces, a polyhedron whose declared face count is
\* wrong, and a cell of a type vtu_add_cell does not know (11, VTK_VOXEL).
CellPool ==
    { Polyhedron(<<0,1,2,3>>, 2, <<<<0,1,2>>, <<0,1,3>>>>),
      Polyhedron(<<0,1,2,4>>, 2, <<<<2,1,0>>, <<1,2,4>>>>),
      Polyhedron(<<0,1,2>>, 1, <<<<1,2,0>>>>),
      Polyhedron(<<>>, 0, <<>>),
      Polyhedron(<<0,1,2>>, 2, <<<<0,1,2>>>>),
      Archetype(10, <<0,1,2,3>>),
      Archetype(10, <<0,2,1,4>>),
      Archetype(11, <<0,1,2,3>>) }

VtuFiles == UNION {[1..n -> CellPool] : n \in 0..MaxCells}

\* what the regular expressions of validate_vtu capture in one line
LineKinds ==
    [type : {<<>>, <<"UnstructuredGrid">>, <<"PolyData">>},
     format : {<<>>, <<"ascii">>, <<"binary">>}]

\* a text of the given lines, and the None of a file that is missing
Text(lines) == [isNone |-> FALSE, lines |-> lines]
NoText == [isNone |-> TRUE, lines |-> <<>>]

\* the texts read_vtu_files returns
VtuTexts ==
    {NoText} \cup {Text(lines) : lines \in UNION {[1..n -> LineKinds] : n \in 0..MaxLines}}

\* the declarations of a text as generate_vtu_text writes them
ValidVtuText ==
    Text(<< [type |-> <<"UnstructuredGrid">>, format |-> <<>>],
            [type |-> <<>>, format |-> <<"ascii">>] >>)

-----------------------------------------------------------------------------
(* ug.py: the records of the topology lists, as io_vtu.py uses them *)

\* ug.UGVertex(): a new vertex, appended to ug.ugverts
UGVertex(verts) == Append(verts, [deleted |-> FALSE, ei |-> None])

\* ug.UGCell(): a new cell without faces, appended to ug.ugcells
UGCell(cells) == Append(cells, [ugfaces |-> <<>>, ugverts |-> <<>>, deleted |-> FALSE])

\* ug.UGFace(verts): a new face without owner and neighbour, appended to ug.ugfaces
UGFace(faces, verts) ==
    Append(faces, [ugverts |-> verts, owner |-> None, neighbour |-> None,
                   deleted |-> FALSE])

\* ug.UGBoundary(name): a new patch, appended to ug.ugboundaries
UGBoundary(patches, name) ==
    Append(patches, [patchname |-> name, typename |-> "patch", inGroups |-> "",
                     nFaces |-> 0, startFace |-> 0, deleted |-> FALSE])

RECURSIVE add_verts(_, _)
\* the cell's vertex list with the vertices of a face added, each once
add_verts(cverts, fverts) ==
    IF fverts = <<>> THEN cverts
    ELSE add_verts(IF Head(fverts) \in Range(cverts) THEN cverts
                   ELSE Append(cverts, Head(fverts)),
                   Tail(fverts))

\* UGCell.add_face_and_verts(ugf): face fi and its vertices are added to cell c
add_face_and_verts(cells, c, fi, faces) ==
    [cells EXCEPT ![c + 1] =
        [@ EXCEPT !.ugfaces = Append(@, fi),
                  !.ugverts = add_verts(@, At(faces, fi).ugverts)]]

\* UGFace.is_boundary_face()
is_boundary_face(f) == f.neighbour = None

-----------------------------------------------------------------------------
(* io_vtu.py: import *)

RECURSIVE join_digits(_)
\* str(i) for every i of the list, nothing between them
join_digits(sortlist) ==
    IF sortlist = <<>> THEN ""
    ELSE ToString(Head(sortlist)) \o join_digits(Tail(sortlist))

\* get_vert_string without the "," after each index
get_vert_string_no_separator(vilist) == join_digits(SortSeq(vilist, <))

\* str(i) + "," for every i of the sorted list
RECURSIVE join_sorted(_)
join_sorted(sortlist) ==
    IF sortlist = <<>> THEN ""
    ELSE (ToString(Head(sortlist)) \o ",") \o join_sorted(Tail(sortlist))

\* get_vert_string without the sort: the key keeps the winding
get_vert_string_unsorted(vilist) == join_sorted(vilist)

\* get_vert_string: the facemap key of a vertex index list
get_vert_string(vilist) == join_sorted(SortSeq(vilist, <))

\* the templates with the face loops of the hexahedron not inverted
FaceTemplates_naive_hex(vtk_cell_type) ==
    CASE vtk_cell_type = 10 ->
           <<<<0,2,1>>, <<0,1,3>>, <<1,2,3>>, <<0,3,2>>>>
      [] vtk_cell_type = 12 ->
           <<<<0,1,2,3>>, <<0,4,5,1>>, <<1,5,6,2>>, <<2,6,7,3>>, <<3,7,4,0>>,
             <<7,6,5,4>>>>
      [] vtk_cell_type = 13 ->
           <<<<0,1,2>>, <<0,3,4,1>>, <<1,4,5,2>>, <<2,5,3,0>>, <<3,5,4>>>>
      [] vtk_cell_type = 14 ->
           <<<<0,3,2,1>>, <<0,4,3>>, <<3,4,2>>, <<2,4,1>>, <<1,4,0>>>>
      [] vtk_cell_type = 15 ->
           <<<<0,1,2,3,4>>, <<0,5,6,1>>, <<1,6,7,2>>, <<2,7,8,3>>, <<3,8,9,4>>,
             <<4,9,5,0>>, <<9,8,7,6,5>>>>
      [] vtk_cell_type = 16 ->
           <<<<0,1,2,3,4,5>>, <<0,6,7,1>>, <<1,7,8,2>>, <<2,8,9,3>>,
             <<3,9,10,4>>, <<4,10,11,5>>, <<5,11,6,0>>, <<11,10,9,8,7,6>>>>

\* the templates with the last face of the wedge wound the other way
FaceTemplates_wedge_flipped(vtk_cell_type) ==
    CASE vtk_cell_type = 10 ->
           <<<<0,2,1>>, <<0,1,3>>, <<1,2,3>>, <<0,3,2>>>>
      [] vtk_cell_type = 12 ->
           <<<<0,3,2,1>>, <<0,1,5,4>>, <<1,2,6,5>>, <<2,3,7,6>>, <<3,0,4,7>>,
             <<7,4,5,6>>>>
      [] vtk_cell_type = 13 ->
           <<<<0,1,2>>, <<0,3,4,1>>, <<1,4,5,2>>, <<2,5,3,0>>, <<3,4,5>>>>
      [] vtk_cell_type = 14 ->
           <<<<0,3,2,1>>, <<0,4,3>>, <<3,4,2>>, <<2,4,1>>, <<1,4,0>>>>
      [] vtk_cell_type = 15 ->
           <<<<0,1,2,3,4>>, <<0,5,6,1>>, <<1,6,7,2>>, <<2,7,8,3>>, <<3,8,9,4>>,
             <<4,9,5,0>>, <<9,8,7,6,5>>>>
      [] vtk_cell_type = 16 ->
           <<<<0,1,2,3,4,5>>, <<0,6,7,1>>, <<1,7,8,2>>, <<2,8,9,3>>,
             <<3,9,10,4>>, <<4,10,11,5>>, <<5,11,6,0>>, <<11,10,9,8,7,6>>>>

\* the fis of each fixed archetype of vtu_add_cell, by VTK cell type
FaceTemplates(vtk_cell_type) ==
    CASE vtk_cell_type = 10 ->
           <<<<0,2,1>>, <<0,1,3>>, <<1,2,3>>, <<0,3,2>>>>
      [] vtk_cell_type = 12 ->
           <<<<0,3,2,1>>, <<0,1,5,4>>, <<1,2,6,5>>, <<2,3,7,6>>, <<3,0,4,7>>,
             <<7,4,5,6>>>>
      [] vtk_cell_type = 13 ->
           <<<<0,1,2>>, <<0,3,4,1>>, <<1,4,5,2>>, <<2,5,3,0>>, <<3,5,4>>>>
      [] vtk_cell_type = 14 ->
           <<<<0,3,2,1>>, <<0,4,3>>, <<3,4,2>>, <<2,4,1>>, <<1,4,0>>>>
      [] vtk_cell_type = 15 ->
           <<<<0,1,2,3,4>>, <<0,5,6,1>>, <<1,6,7,2>>, <<2,7,8,3>>, <<3,8,9,4>>,
             <<4,9,5,0>>, <<9,8,7,6,5>>>>
      [] vtk_cell_type = 16 ->
           <<<<0,1,2,3,4,5>>, <<0,6,7,1>>, <<1,7,8,2>>, <<2,8,9,3>>,
             <<3,9,10,4>>, <<4,10,11,5>>, <<5,11,6,0>>, <<11,10,9,8,7,6>>>>

ArchetypeTypes == {10, 12, 13, 14, 15, 16}

\* one pass of the loop of add_cell_faces: the face of template fisverts is
\* looked up in the facemap, linked to cell c and added to c
add_cell_face(c, fisverts, vilist, st, is_polyhedron) ==
    LET real_vilist == IF is_polyhedron THEN fisverts
                       ELSE [k \in 1..Len(fisverts) |-> At(vilist, fisverts[k])]
        string == get_vert_string(real_vilist)
    IN  IF string \in DOMAIN st.facemap
        THEN LET ugf == st.facemap[string]
                 faces == [st.ugfaces EXCEPT ![ugf + 1].neighbour = c]
             IN  [st EXCEPT !.ugfaces = faces,
                            !.ugcells = add_face_and_verts(@, c, ugf, faces)]
        ELSE LET ugf == Len(st.ugfaces)
                 faces == [UGFace(st.ugfaces, real_vilist)
                              EXCEPT ![ugf + 1].owner = c]
             IN  [st EXCEPT !.ugfaces = faces,
                            !.facemap = (string :> ugf) @@ @,
                            !.ugcells = add_face_and_verts(@, c, ugf, faces)]

RECURSIVE add_cell_faces(_, _, _, _, _)
\* add_cell_faces: every template of fis in turn; a template that names a
\* local index the cell has no vertex for ends the call with an IndexError
add_cell_faces(c, fis, vilist, st, is_polyhedron) ==
    IF fis = <<>> THEN st
    ELSE IF ~is_polyhedron /\ \E k \in 1..Len(Head(fis)) : Head(fis)[k] >= Len(vilist)
    THEN [st EXCEPT !.err = Exception("IndexError", "list index out of range", "")]
    ELSE add_cell_faces(c, Tail(fis), vilist,
                        add_cell_face(c, Head(fis), vilist, st, is_polyhedron),
                        is_polyhedron)

RECURSIVE fis_loop(_, _, _, _, _, _)
\* the loop of get_polyhedron_fis from index i on: status tells whether the
\* next number is a vertex count (TRUE) or a vertex index (FALSE)
fis_loop(polyfacelist, i, status, numVerts, vertlist, fis) ==
    IF i >= Len(polyfacelist) THEN fis
    ELSE LET n == At(polyfacelist, i)
             numVerts1 == IF status THEN n ELSE numVerts
             vertlist1 == IF status THEN <<>> ELSE Append(vertlist, n)
             complete == Len(vertlist1) = numVerts1
         IN  fis_loop(polyfacelist, i + 1, complete, numVerts1, vertlist1,
                      IF complete THEN Append(fis, vertlist1) ELSE fis)

\* get_polyhedron_fis without the comparison of nFaces and len(fis)
get_polyhedron_fis_unchecked(polyfacelist) ==
    IF polyfacelist = <<>>
    THEN [err |-> Exception("IndexError", "list index out of range", ""),
          fis |-> <<>>]
    ELSE [err |-> NoException,
          fis |-> fis_loop(polyfacelist, 1, TRUE, 0, <<>>, <<>>)]

\* get_polyhedron_fis: the face records of a polyhedron face list, or the
\* exception it raises
get_polyhedron_fis(polyfacelist) ==
    IF polyfacelist = <<>>
    THEN [err |-> Exception("IndexError", "list index out of range", ""),
          fis |-> <<>>]
    ELSE LET nFaces == At(polyfacelist, 0)
             fis == fis_loop(polyfacelist, 1, TRUE, 0, <<>>, <<>>)
         IN  IF nFaces # Len(fis)
             THEN [err |-> Exception("ValueError", "Polyhedron faces list is broken",
                                     ToString(polyfacelist)),
                   fis |-> <<>>]
             ELSE [err |-> NoException, fis |-> fis]

\* vtu_add_cell: a new cell of the given type; st holds ugfaces, ugcells and
\* the facemap, and err the exception that ended the call
vtu_add_cell(vtk_cell_type, vilist, st, polyfacelist) ==
    LET c == Len(st.ugcells)
        st1 == [st EXCEPT !.ugcells = UGCell(@)]
    IN  IF vtk_cell_type \in ArchetypeTypes
        THEN add_cell_faces(c, FaceTemplates(vtk_cell_type), vilist, st1, FALSE)
        ELSE IF vtk_cell_type = 42
        THEN LET got == get_polyhedron_fis(polyfacelist)
             IN  IF got.err # NoException THEN [st1 EXCEPT !.err = got.err]
                 ELSE add_cell_faces(c, got.fis, vilist, st1, TRUE)
        ELSE [st1 EXCEPT !.err = Exception("ValueError", "Unsupported VTK cell type",
                                           ToString(vtk_cell_type))]

\* validate_vtu from the given line on: a line is the pair of what the two
\* regular expressions capture in it, <<>> where one does not match
RECURSIVE validate_lines(_, _)
validate_lines(lines, match) ==
    IF lines = <<>>
    THEN IF ~match THEN "Error: File does not seem to be in VTU format" ELSE ""
    ELSE LET line == Head(lines)
         IN  IF line.type # <<>> /\ line.type[1] # "UnstructuredGrid"
             THEN "VTK file type is not 'UnstructuredGrid' but " \o line.type[1]
             ELSE IF line.format # <<>> /\ line.format[1] # "ascii"
             THEN "VTK file format is not 'ascii' but " \o line.format[1]
             ELSE validate_lines(Tail(lines), match \/ line.type # <<>>)

RECURSIVE validate_lines_type_only(_, _)
\* validate_lines without the test of the format
validate_lines_type_only(lines, match) ==
    IF lines = <<>>
    THEN IF ~match THEN "Error: File does not seem to be in VTU format" ELSE ""
    ELSE LET line == Head(lines)
         IN  IF line.type # <<>> /\ line.type[1] # "UnstructuredGrid"
             THEN "VTK file type is not 'UnstructuredGrid' but " \o line.type[1]
             ELSE validate_lines_type_only(Tail(lines), match \/ line.type # <<>>)

\* validate_vtu without the test of the format
validate_vtu_type_only(t) ==
    IF t.isNone \/ t.lines = <<>> THEN "Error: No file was selected"
    ELSE validate_lines_type_only(t.lines, FALSE)

\* validate_vtu: "" stands for the None of a text that passed
validate_vtu(t) ==
    IF t.isNone \/ t.lines = <<>> THEN "Error: No file was selected"
    ELSE validate_lines(t.lines, FALSE)

\* dict(): a map without keys
EmptyMap == [k \in {} |-> None]

RECURSIVE create_points(_, _)
\* create_points: one UGVertex for each coordinate triplet
create_points(verts, npoints) ==
    IF npoints = 0 THEN verts ELSE create_points(UGVertex(verts), npoints - 1)

NoVtu == [celltypes |-> <<>>, connectivities |-> <<>>, offsets |-> <<>>,
          cellfaces |-> <<>>, cellfaceoffsets |-> <<>>,
          ci |-> 0, conn_index |-> 0, offset_index |-> 0, vilists |-> <<>>]

NoVtuOut == [nPoints |-> None, nCells |-> None, points |-> <<>>,
             connectivities |-> <<>>, celltypes |-> <<>>, offsets |-> <<>>,
             cellfaces |-> <<>>, cellfaceoffsets |-> <<>>]

\* the face stream of a polyhedron in the faces block:
\* [faceCount, n0, v.., n1, v.., ...]
FaceStream(cell) ==
    IF cell.type # 42 THEN <<>>
    ELSE <<cell.nFaces>> \o
         Concat([k \in 1..Len(cell.faces) |-> <<Len(cell.faces[k])>> \o cell.faces[k]])

RECURSIVE face_offsets(_, _)
\* the faceoffsets block of a file: the end of each polyhedron's face stream
\* in the faces block, -1 for a cell of another type
face_offsets(cells, acc) ==
    IF cells = <<>> THEN <<>>
    ELSE IF Head(cells).type # 42 THEN <<-1>> \o face_offsets(Tail(cells), acc)
    ELSE <<acc + Len(FaceStream(Head(cells)))>> \o
         face_offsets(Tail(cells), acc + Len(FaceStream(Head(cells))))

\* the DataArray blocks of the VTU file that describes the given cells, as
\* the calls of get_data_array_block in vtu_to_ugdata return them
EncodeFile(cells) ==
    [npoints |-> Cardinality(PoolVertices),
     celltypes |-> [k \in 1..Len(cells) |-> cells[k].type],
     connectivities |-> Concat([k \in 1..Len(cells) |-> cells[k].vilist]),
     offsets |-> running_sum([k \in 1..Len(cells) |-> Len(cells[k].vilist)], 0),
     cellfaces |-> Concat([k \in 1..Len(cells) |-> FaceStream(cells[k])]),
     cellfaceoffsets |-> face_offsets(cells, 0)]

\* UG_OT_ImportVtu.execute up to the loop of vtu_datalists_to_ugdata: t is the
\* text's declarations and data its DataArray blocks as get_data_array_block
\* returns them. A session imports one VTU file.
ImportVtu_execute(t, file) ==
    /\ pc \in {"idle", "done", "failed"}
    /\ text' = t
    /\ raised' = NoException
    /\ LET res == validate_vtu(t)
           data == EncodeFile(file)
       IN  IF res # ""
           THEN /\ report' = Report("ERROR", "Validation failed: ", res)
                /\ UNCHANGED <<pc, vtu, ugverts, ugfaces, ugcells, ugboundaries,
                               facemap, vtuout, mesh>>
           ELSE /\ pc = "idle"
                /\ pc' = "cells"
                /\ ugverts' = create_points(ugverts, data.npoints)
                /\ vtu' = [celltypes |-> data.celltypes,
                           connectivities |-> data.connectivities,
                           offsets |-> data.offsets,
                           cellfaces |-> data.cellfaces,
                           cellfaceoffsets |-> data.cellfaceoffsets,
                           ci |-> 0, conn_index |-> 0, offset_index |-> 0,
                           vilists |-> <<>>]
                /\ facemap' = EmptyMap
                /\ mesh' = file
                /\ UNCHANGED <<report, ugfaces, ugcells, ugboundaries, vtuout>>
    /\ UNCHANGED <<fisVars, pmVars>>

\* conn_index += conn_end - conn_index, with += conn_end instead
next_conn_index_by_end(conn_index, conn_end) == conn_index + conn_end

\* conn_index += conn_end - conn_index
next_conn_index(conn_index, conn_end) == conn_index + (conn_end - conn_index)

\* one pass of the loop of vtu_datalists_to_ugdata: cell ci is added, or the
\* exception of vtu_add_cell ends the import; vilists keeps the vilist of
\* every pass
vtu_datalists_to_ugdata ==
    /\ pc = "cells"
    /\ vtu.ci < Len(vtu.celltypes)
    /\ LET ci == vtu.ci
           vtk_cell_type == At(vtu.celltypes, ci)
           conn_end == At(vtu.offsets, ci)
           vilist == Slice(vtu.connectivities, vtu.conn_index, conn_end)
           is42 == vtk_cell_type = 42
           faceoffset == At(vtu.cellfaceoffsets, ci) + 1
           polyfacelist == IF is42
                           THEN Slice(vtu.cellfaces, vtu.offset_index, faceoffset)
                           ELSE <<>>
           offset_index == IF is42 THEN At(vtu.cellfaceoffsets, ci)
                           ELSE vtu.offset_index
           st == vtu_add_cell(vtk_cell_type, vilist,
                              [ugfaces |-> ugfaces, ugcells |-> ugcells,
                               facemap |-> facemap, err |-> NoException],
                              polyfacelist)
       IN  /\ ugfaces' = st.ugfaces
           /\ ugcells' = st.ugcells
           /\ facemap' = st.facemap
           /\ IF st.err # NoException
              THEN /\ raised' = st.err
                   /\ pc' = "failed"
                   /\ vtu' = [vtu EXCEPT !.offset_index = offset_index,
                                         !.vilists = Append(@, vilist)]
              ELSE /\ vtu' = [vtu EXCEPT !.offset_index = offset_index,
                                         !.conn_index =
                                             next_conn_index(@, conn_end),
                                         !.ci = @ + 1,
                                         !.vilists = Append(@, vilist)]
                   /\ UNCHANGED <<raised, pc>>
    /\ UNCHANGED <<text, report, ugverts, ugboundaries, vtuout, mesh>>
    /\ UNCHANGED <<fisVars, pmVars>>

\* vtu_to_ugdata after the loop, and the rest of execute: the default patch
\* is recorded and the number of cells reported
vtu_to_ugdata_finish ==
    /\ pc = "cells"
    /\ vtu.ci = Len(vtu.celltypes)
    /\ ugboundaries' = UGBoundary(ugboundaries, "default")
    /\ report' = Report("INFO", "Imported %d cells", ToString(Len(vtu.celltypes)))
    /\ pc' = "done"
    /\ UNCHANGED <<text, raised, vtu, ugverts, ugfaces, ugcells, facemap, vtuout,
                   mesh>>
    /\ UNCHANGED <<fisVars, pmVars>>

-----------------------------------------------------------------------------
(* io_vtu.py: the DataArray blocks of a text *)

\* A line of a text is an opening DataArray tag with its Name, a closing
\* DataArray tag, or a data line, which is a list of characters: digits
\* and blanks.
OpenTag(name) == [kind |-> "open", name |-> name, chars |-> <<>>]
CloseTag == [kind |-> "close", name |-> "", chars |-> <<>>]
DataLine(chars) == [kind |-> "data", name |-> "", chars |-> chars]

DigitValue(c) ==
    CASE c = "0" -> 0 [] c = "1" -> 1 [] c = "2" -> 2 [] c = "3" -> 3
      [] c = "4" -> 4 [] c = "5" -> 5 [] c = "6" -> 6 [] c = "7" -> 7
      [] c = "8" -> 8 [] c = "9" -> 9

RECURSIVE int(_)
\* int(value) of a list of digits
int(value) ==
    IF value = <<>> THEN 0
    ELSE 10 * int(SubSeq(value, 1, Len(value) - 1)) + DigitValue(value[Len(value)])

RECURSIVE split(_, _)
\* text.split( ): the runs of characters between the blanks; word is the
\* run that is being read
split(chars, word) ==
    IF chars = <<>> THEN IF word = <<>> THEN <<>> ELSE <<word>>
    ELSE IF Head(chars) = " "
         THEN (IF word = <<>> THEN <<>> ELSE <<word>>) \o split(Tail(chars), <<>>)
         ELSE split(Tail(chars), Append(word, Head(chars)))

\* get_list_from_text with vartype int
get_list_from_text(chars) ==
    LET values == split(chars, <<>>)
    IN  [k \in 1..Len(values) |-> int(values[k])]

RECURSIVE data_array_lines(_, _, _, _)
\* the loop of get_data_array_block: the datablock the lines add up to
data_array_lines(name, lines, inside, datablock) ==
    IF lines = <<>> THEN datablock
    ELSE LET line == Head(lines)
         IN  IF line.kind = "open"
             THEN data_array_lines(name, Tail(lines), line.name = name, datablock)
             ELSE IF line.kind = "close"
             THEN data_array_lines(name, Tail(lines), FALSE, datablock)
             ELSE data_array_lines(name, Tail(lines), inside,
                      IF inside THEN datablock \o line.chars ELSE datablock)

\* get_data_array_block(name, "int", text)
get_data_array_block(name, lines) ==
    get_list_from_text(data_array_lines(name, lines, FALSE, <<>>))

-----------------------------------------------------------------------------
(* io_vtu.py: export *)

\* ug.exists_ug_state(), of the poll of UG_OT_ExportVtu
exists_ug_state == Len(ugcells) > 0

\* the items of a list that are not flagged deleted, in storage order
NotDeleted(s) == SelectSeq(s, LAMBDA x : ~x.deleted)

RECURSIVE assign_ei_by_position(_, _, _)
\* the loop of generate_points_text with n counting the deleted vertices too
assign_ei_by_position(verts, k, n) ==
    IF k > Len(verts) THEN verts
    ELSE IF verts[k].deleted THEN assign_ei_by_position(verts, k + 1, n + 1)
    ELSE assign_ei_by_position([verts EXCEPT ![k].ei = n], k + 1, n + 1)

RECURSIVE assign_ei(_, _, _)
\* the loop of generate_points_text from vertex k on: every vertex that is
\* not deleted gets the next export index n
assign_ei(verts, k, n) ==
    IF k > Len(verts) THEN verts
    ELSE IF verts[k].deleted THEN assign_ei(verts, k + 1, n)
    ELSE assign_ei([verts EXCEPT ![k].ei = n], k + 1, n + 1)

\* generate_points_text: the vertices with their export indices, and the
\* lines of the points block, one for each vertex that is not deleted
generate_points_text(verts) ==
    LET live == {k \in 1..Len(verts) : ~verts[k].deleted}
        n == Cardinality(live)
    IN  [ugverts |-> assign_ei(verts, 1, 0),
         points |-> [k \in 1..n |-> "x y z"],
         n |-> n]

\* generate_connectivities_text: one line of vertex export indices for each cell
generate_connectivities_text(verts, cells) ==
    LET live == NotDeleted(cells)
    IN  [k \in 1..Len(live) |->
            [j \in 1..Len(live[k].ugverts) |-> At(verts, live[k].ugverts[j]).ei]]

\* generate_types_offsets_text: type 42 and the running vertex count for each
\* cell; offsetlist[-1] raises where no cell is written
generate_types_offsets_text(cells) ==
    LET live == NotDeleted(cells)
        typeslist == [k \in 1..Len(live) |-> 42]
        offsetlist == running_sum([k \in 1..Len(live) |-> Len(live[k].ugverts)], 0)
    IN  [err |-> IF offsetlist = <<>>
                 THEN Exception("IndexError", "list index out of range", "")
                 ELSE NoException,
         celltypes |-> typeslist,
         offsets |-> offsetlist,
         nCells |-> Len(live)]

\* faceslist without the vertex count in front of each face
faceslist_no_vertex_count(verts, faces, c) ==
    <<Len(c.ugfaces)>> \o
    Concat([k \in 1..Len(c.ugfaces) |->
              LET fverts == At(faces, c.ugfaces[k]).ugverts
              IN  [j \in 1..Len(fverts) |-> At(verts, fverts[j]).ei]])

\* the faceslist of one cell in generate_cellfaces_text
faceslist(verts, faces, c) ==
    <<Len(c.ugfaces)>> \o
    Concat([k \in 1..Len(c.ugfaces) |->
              LET fverts == At(faces, c.ugfaces[k]).ugverts
              IN  <<Len(fverts)>> \o
                  [j \in 1..Len(fverts) |-> At(verts, fverts[j]).ei]])

\* generate_cellfaces_text: one faces line and one running face offset for
\* each cell
generate_cellfaces_text(verts, faces, cells) ==
    LET live == NotDeleted(cells)
        lines == [k \in 1..Len(live) |-> faceslist(verts, faces, live[k])]
    IN  [cellfaces |-> lines,
         cellfaceoffsets |-> running_sum([k \in 1..Len(lines) |-> Len(lines[k])], 0)]

\* UG_OT_ExportVtu.execute: write_vtu over the session's topology
ExportVtu_execute ==
    /\ pc \in {"done", "failed"}
    /\ exists_ug_state
    /\ LET pts == generate_points_text(ugverts)
           conn == generate_connectivities_text(pts.ugverts, ugcells)
           tyof == generate_types_offsets_text(ugcells)
           cfs == generate_cellfaces_text(pts.ugverts, ugfaces, ugcells)
       IN  /\ ugverts' = pts.ugverts
           /\ IF tyof.err # NoException
              THEN /\ raised' = tyof.err
                   /\ UNCHANGED <<report, vtuout>>
              ELSE /\ raised' = NoException
                   /\ vtuout' = [nPoints |-> pts.n, nCells |-> tyof.nCells,
                                 points |-> pts.points,
                                 connectivities |-> conn,
                                 celltypes |-> tyof.celltypes,
                                 offsets |-> tyof.offsets,
                                 cellfaces |-> cfs.cellfaces,
                                 cellfaceoffsets |-> cfs.cellfaceoffsets]
                   /\ report' = Report("INFO", "Exported %d cells to  %r",
                                       ToString(tyof.nCells))
    /\ UNCHANGED <<text, pc, vtu, ugfaces, ugcells, ugboundaries, facemap, mesh>>
    /\ UNCHANGED <<fisVars, pmVars>>

-----------------------------------------------------------------------------
(* ug.py: the records of the topology lists, as io_polymesh.py uses them *)

\* UGCell(i): a new cell without faces
UGCell_i(i) == [faces |-> <<>>, celli |-> None, deleted |-> FALSE]

\* UGFace(i, verts): a new face without owner, neighbour and patch
UGFace_i(i, verts) ==
    [verts |-> verts, owneri |-> None, neighbouri |-> None, mati |-> None,
     facei |-> i, deleted |-> FALSE]

-----------------------------------------------------------------------------
(* io_polymesh.py: import *)

\* a text block: the count line and the entries between the parentheses
TextBlock(count, entries) == [count |-> count, entries |-> entries]

NoProps ==
    [text_points |-> TextBlock(0, <<>>), text_faces |-> TextBlock(0, <<>>),
     text_owner |-> TextBlock(0, <<>>), text_neighbour |-> TextBlock(0, <<>>),
     text_boundary |-> TextBlock(0, <<>>)]

NoObject == [exists |-> FALSE, vertices |-> <<>>, polygons |-> <<>>,
             materials |-> <<>>]

\* initialize_ug_object: the object is made anew, without geometry
initialize_ug_object == [exists |-> TRUE, vertices |-> <<>>, polygons |-> <<>>,
                         materials |-> <<>>]

\* A line of the boundary text is the list of its words; the blanks
\* between and around them are not kept.
RECURSIVE ingroup_fix_lines(_, _, _, _)
\* the loop of polymesh_boundary_ingroup_fix: the lines of result
ingroup_fix_lines(lines, inside, res, result) ==
    IF lines = <<>> THEN result
    ELSE LET line == Head(lines)
         IN  IF line = <<"inGroups">>
             THEN ingroup_fix_lines(Tail(lines), TRUE, <<"inGroups">>, result)
             ELSE IF inside
             THEN IF ";" \in Range(line)
                  THEN ingroup_fix_lines(Tail(lines), FALSE, res \o line,
                                         Append(result, res \o line))
                  ELSE ingroup_fix_lines(Tail(lines), TRUE, res \o line, result)
             ELSE ingroup_fix_lines(Tail(lines), FALSE, res, Append(result, line))

\* polymesh_boundary_ingroup_fix on the lines of ug_props.text_boundary
polymesh_boundary_ingroup_fix(lines) ==
    ingroup_fix_lines(lines, FALSE, <<>>, <<>>)

\* polymesh_get_verts: the coordinate triplets of the lines, the count line
\* is not one
polymesh_get_verts(t) == t.entries

\* The lines of an integer text: a line that starts with "(", a line that
\* starts with ")", a line that starts with an integer, and any other line.
OpenLine == [kind |-> "(", n |-> None]
CloseLine == [kind |-> ")", n |-> None]
IntLine(n) == [kind |-> "int", n |-> n]
OtherLine == [kind |-> "", n |-> None]

\* the lines of a text block: the count line and the entries between the
\* parentheses
block_lines(t) ==
    <<IntLine(t.count), OpenLine>>
    \o [k \in 1..Len(t.entries) |-> IntLine(t.entries[k])]
    \o <<CloseLine>>

RECURSIVE intlist_lines_never_leaving(_, _, _)
\* the loop of polymesh_get_intlist without the test for ")"
intlist_lines_never_leaving(lines, inside, iList) ==
    IF lines = <<>> THEN iList
    ELSE LET line == Head(lines)
             inside1 == IF line.kind = "(" THEN TRUE ELSE inside
         IN  intlist_lines_never_leaving(Tail(lines), inside1,
                 IF inside1 /\ line.kind = "int" THEN Append(iList, line.n)
                 ELSE iList)

RECURSIVE intlist_lines(_, _, _)
\* the loop of polymesh_get_intlist over the lines
intlist_lines(lines, inside, iList) ==
    IF lines = <<>> THEN iList
    ELSE LET line == Head(lines)
             inside1 == IF line.kind = "(" THEN TRUE
                        ELSE IF line.kind = ")" THEN FALSE
                        ELSE inside
         IN  intlist_lines(Tail(lines), inside1,
                 IF inside1 /\ line.kind = "int" THEN Append(iList, line.n)
                 ELSE iList)

\* polymesh_get_intlist: the integers at the start of the lines between the
\* parentheses, the count line is outside of them
polymesh_get_intlist(t) == intlist_lines(block_lines(t), FALSE, <<>>)

\* polymesh_get_list_intlist: the integer lists of the lines between the
\* parentheses
polymesh_get_list_intlist(t) == t.entries

\* the cell loop of polymesh_get_faces with range(max(owner))
populate_ugcells_one_short(cells, i, n) ==
    cells \o [k \in 1..(n - i - 1) |-> UGCell_i(i + k - 1)]

RECURSIVE populate_ugcells(_, _, _)
\* the first loop of polymesh_get_faces: UGCell(i) for i in range(n)
populate_ugcells(cells, i, n) ==
    IF i >= n THEN cells
    ELSE populate_ugcells(Append(cells, UGCell_i(i)), i + 1, n)

RECURSIVE face_loop(_, _, _, _, _)
\* the second loop of polymesh_get_faces, from face i on
face_loop(i, face_verts, owner, neighbour, st) ==
    IF i >= Len(face_verts) THEN st
    ELSE
    LET ugface == UGFace_i(i, At(face_verts, i))
    IN  IF i >= Len(owner)
        THEN [st EXCEPT !.ugfaces = Append(@, ugface),
                        !.err = Exception("IndexError", "list index out of range", "")]
        ELSE
        LET owned == [ugface EXCEPT !.owneri = At(owner, i)]
            cells1 == [st.ugcells EXCEPT ![At(owner, i) + 1].faces = Append(@, i)]
        IN  IF i < Len(neighbour)
            THEN LET shared == [owned EXCEPT !.neighbouri = At(neighbour, i)]
                 IN  IF At(neighbour, i) >= Len(cells1)
                     THEN [st EXCEPT
                              !.ugfaces = Append(@, shared),
                              !.ugcells = cells1,
                              !.err = Exception("IndexError",
                                                "list index out of range", "")]
                     ELSE face_loop(i + 1, face_verts, owner, neighbour,
                              [st EXCEPT
                                  !.ugfaces = Append(@, shared),
                                  !.ugcells =
                                      [cells1 EXCEPT ![At(neighbour, i) + 1].faces =
                                                         Append(@, i)]])
            ELSE face_loop(i + 1, face_verts, owner, neighbour,
                     [st EXCEPT !.ugfaces = Append(@, owned),
                                !.ugcells = cells1,
                                !.faces = Append(@, At(face_verts, i))])

\* polymesh_get_faces: the cells and faces of the owner, neighbour and faces
\* blocks are added to the lists; faces is the list of the boundary polygons
polymesh_get_faces(text_owner, text_neighbour, text_faces, faces0, cells0) ==
    LET owner == polymesh_get_intlist(text_owner)
        neighbour == polymesh_get_intlist(text_neighbour)
        face_verts == polymesh_get_list_intlist(text_faces)
        st == [ugfaces |-> faces0, ugcells |-> cells0, faces |-> <<>>,
               err |-> NoException]
    IN  IF owner = <<>>
        THEN [st EXCEPT !.err = Exception("ValueError",
                                          "max() arg is an empty sequence", "")]
        ELSE face_loop(0, face_verts, owner, neighbour,
                 [st EXCEPT !.ugcells =
                     populate_ugcells(cells0, 0, SetMax(Range(owner)) + 1)])

RECURSIVE polymesh_get_boundary(_, _)
\* polymesh_get_boundary: a patch for every entry of the boundary block
polymesh_get_boundary(entries, patches) ==
    IF entries = <<>> THEN patches
    ELSE LET e == Head(entries)
             named == UGBoundary(patches, e.patchname)
         IN  polymesh_get_boundary(Tail(entries),
                 [named EXCEPT ![Len(named)] =
                     [@ EXCEPT !.typename = e.typename,
                               !.inGroups = e.inGroups,
                               !.nFaces = e.nFaces,
                               !.startFace = e.startFace]])

RECURSIVE set_mati(_, _, _, _)
\* ugfaces[i].mati = mati for i in range(i, stop); err when a face is missing
set_mati(faces, i, stop, mati) ==
    IF i >= stop THEN [ugfaces |-> faces, err |-> NoException]
    ELSE IF i >= Len(faces)
         THEN [ugfaces |-> faces,
               err |-> Exception("IndexError", "list index out of range", "")]
         ELSE set_mati([faces EXCEPT ![i + 1].mati = mati], i + 1, stop, mati)

RECURSIVE set_material_index(_, _, _, _)
\* ob.data.polygons[facecount].material_index = mati, n times
set_material_index(polygons, facecount, n, mati) ==
    IF n = 0 THEN [polygons |-> polygons, err |-> NoException]
    ELSE IF facecount >= Len(polygons)
         THEN [polygons |-> polygons,
               err |-> Exception("IndexError", "list index out of range", "")]
         ELSE set_material_index(
                  [polygons EXCEPT ![facecount + 1].material_index = mati],
                  facecount + 1, n - 1, mati)

RECURSIVE apply_materials_to_boundaries(_, _, _, _)
\* apply_materials_to_boundaries, from patch mati on
apply_materials_to_boundaries(patches, mati, facecount, st) ==
    IF mati >= Len(patches) THEN st
    ELSE LET b == At(patches, mati)
             st1 == [st EXCEPT !.materials = Append(@, b.patchname)]
             marked == set_mati(st.ugfaces, b.startFace,
                                b.startFace + b.nFaces, mati)
         IN  IF marked.err # NoException
             THEN [st1 EXCEPT !.ugfaces = marked.ugfaces, !.err = marked.err]
             ELSE LET painted == set_material_index(st.polygons, facecount,
                                                    b.nFaces, mati)
                      st2 == [st1 EXCEPT !.ugfaces = marked.ugfaces,
                                         !.polygons = painted.polygons]
                  IN  IF painted.err # NoException
                      THEN [st2 EXCEPT !.err = painted.err]
                      ELSE apply_materials_to_boundaries(
                               patches, mati + 1, facecount + b.nFaces, st2)

\* ob.data.from_pydata: a polygon for every boundary face
from_pydata(faces) ==
    [k \in 1..Len(faces) |-> [vertices |-> faces[k], material_index |-> 0]]

\* the files of a directory, in the order read_polymesh_files reads them
filenames == <<"boundary", "faces", "neighbour", "owner", "points">>

\* the text blocks of a directory
ReadFiles(d) ==
    [text_points |-> TextBlock(Len(d.points), d.points),
     text_faces |-> TextBlock(Len(d.faces), d.faces),
     text_owner |-> TextBlock(Len(d.owner), d.owner),
     text_neighbour |-> TextBlock(Len(d.neighbour), d.neighbour),
     text_boundary |-> TextBlock(Len(d.boundary), d.boundary)]

RECURSIVE read_polymesh_files(_, _, _)
\* the loop of read_polymesh_files from file k on: the text block of every
\* file is stored until a file is not there
read_polymesh_files(props, d, k) ==
    IF k > Len(filenames) THEN [props |-> props, missing |-> ""]
    ELSE IF filenames[k] \notin d.files
         THEN [props |-> props, missing |-> filenames[k]]
         ELSE read_polymesh_files(
                  [props EXCEPT !["text_" \o filenames[k]] =
                                    ReadFiles(d)["text_" \o filenames[k]]],
                  d, k + 1)

\* UG_OT_ImportPolyMesh.execute on a directory d: read_polymesh_files and, when
\* the five files are there, polymesh_to_ugdata
ImportPolyMesh_execute(d) ==
    /\ pc \in {"idle", "pm_imported", "pm_import_failed", "pm_exported",
               "pm_export_failed"}
    /\ polymesh' = d
    /\ ug_props' = read_polymesh_files(ug_props, d, 1).props
    /\ IF read_polymesh_files(ug_props, d, 1).missing # ""
       THEN /\ report' = Report("ERROR", "Could not find %r",
                                read_polymesh_files(ug_props, d, 1).missing)
            /\ raised' = NoException
            /\ UNCHANGED <<pc, ugfaces, ugcells, ugboundaries, ob>>
       ELSE
       LET props == ReadFiles(d)
           verts == polymesh_get_verts(props.text_points)
           got == polymesh_get_faces(props.text_owner, props.text_neighbour,
                                     props.text_faces, ugfaces, ugcells)
           patches == polymesh_get_boundary(props.text_boundary.entries,
                                            ugboundaries)
           done == apply_materials_to_boundaries(patches, 0, 0,
                       [ugfaces |-> got.ugfaces,
                        polygons |-> from_pydata(got.faces),
                        materials |-> <<>>, err |-> NoException])
       IN  IF got.err # NoException
           THEN /\ ugfaces' = got.ugfaces
                /\ ugcells' = got.ugcells
                /\ ob' = initialize_ug_object
                /\ raised' = got.err
                /\ pc' = "pm_import_failed"
                /\ UNCHANGED <<report, ugboundaries>>
           ELSE /\ UNCHANGED report
                /\ ugfaces' = done.ugfaces
                /\ ugcells' = got.ugcells
                /\ ugboundaries' = patches
                /\ ob' = [exists |-> TRUE, vertices |-> verts,
                          polygons |-> done.polygons,
                          materials |-> done.materials]
                /\ raised' = done.err
                /\ pc' = IF done.err # NoException THEN "pm_import_failed"
                         ELSE "pm_imported"
    /\ UNCHANGED <<text, vtu, ugverts, facemap, vtuout, mesh, fisVars>>

-----------------------------------------------------------------------------
(* io_polymesh.py: export *)

\* gen_line of update_text_faces: the line n(v0 v1 ...) of a face
gen_line(verts) == [n |-> Len(verts), verts |-> verts]

\* the cells with every celli reset to -1
reset_celli(cells) == [k \in 1..Len(cells) |-> [cells[k] EXCEPT !.celli = -1]]

\* the cell gets the index celli if it has none; ugcells[c] raises when the
\* list has no cell c
number_cell(st, c) ==
    IF st.err # NoException THEN st
    ELSE IF c >= Len(st.ugcells)
         THEN [st EXCEPT !.err = Exception("IndexError",
                                           "list index out of range", "")]
         ELSE IF At(st.ugcells, c).celli = -1
              THEN [st EXCEPT !.ugcells[c + 1].celli = st.celli, !.celli = @ + 1]
              ELSE st

RECURSIVE face_pass_loop(_, _, _)
\* the loop of face_pass over ugfaces, from position k on
face_pass_loop(internal, k, st) ==
    IF k > Len(st.ugfaces) \/ st.err # NoException THEN st
    ELSE LET f == st.ugfaces[k]
         IN  IF \/ f.deleted
                \/ internal /\ f.neighbouri = -1
                \/ ~internal /\ f.neighbouri # -1
             THEN face_pass_loop(internal, k + 1, st)
             ELSE LET st1 == [st EXCEPT !.ugfaces[k].facei = st.i,
                                        !.text = Append(@, gen_line(f.verts))]
                      st2 == IF internal
                             THEN number_cell(number_cell(st1, f.owneri),
                                              f.neighbouri)
                             ELSE st1
                  IN  face_pass_loop(internal, k + 1,
                          IF st2.err # NoException THEN st2
                          ELSE [st2 EXCEPT !.i = @ + 1])

\* face_pass that numbers from 0 whatever i is
face_pass_from_zero(internal, i, faces, cells) ==
    face_pass_loop(internal, 1,
        [ugfaces |-> faces,
         ugcells |-> IF internal THEN reset_celli(cells) ELSE cells,
         text |-> <<>>, i |-> 0, celli |-> 0, err |-> NoException])

\* face_pass of update_text_faces
face_pass(internal, i, faces, cells) ==
    face_pass_loop(internal, 1,
        [ugfaces |-> faces,
         ugcells |-> IF internal THEN reset_celli(cells) ELSE cells,
         text |-> <<>>, i |-> i, celli |-> 0, err |-> NoException])

\* update_text_faces: the faces block, and the lists with facei and celli set
update_text_faces(faces, cells) ==
    LET inner == face_pass(TRUE, 0, faces, cells)
        outer == face_pass(FALSE, inner.i, inner.ugfaces, inner.ugcells)
    IN  IF inner.err # NoException
        THEN [ugfaces |-> inner.ugfaces, ugcells |-> inner.ugcells,
              text_faces |-> TextBlock(0, <<>>), err |-> inner.err]
        ELSE [ugfaces |-> outer.ugfaces, ugcells |-> outer.ugcells,
              text_faces |-> TextBlock(outer.i, inner.text \o outer.text),
              err |-> NoException]

\* the list x.field for x in s
Column(s, field) == [k \in 1..Len(s) |-> s[k][field]]

\* update_text_owner_neighbour: the owner and neighbour blocks
update_text_owner_neighbour(faces) ==
    LET internal_faces == SelectSeq(faces, LAMBDA f : ~f.deleted)
        neighbour_faces == SelectSeq(faces,
                               LAMBDA f : f.neighbouri # -1 /\ ~f.deleted)
    IN  [text_owner |-> TextBlock(Len(internal_faces) + Len(neighbour_faces),
                                  Column(internal_faces, "owneri")),
         text_neighbour |-> TextBlock(Len(neighbour_faces),
                                      Column(neighbour_faces, "neighbouri"))]

RECURSIVE update_text_boundary_closing_up(_, _, _, _)
\* update_text_boundary in which a deleted patch does not take a number
update_text_boundary_closing_up(patches, faces, i, btext) ==
    IF i >= Len(patches)
    THEN [err |-> NoException, text_boundary |-> TextBlock(Len(btext), btext)]
    ELSE LET b == At(patches, i)
             bfaces == SelectSeq(faces, LAMBDA x : x.mati = i)
         IN  IF b.deleted
             THEN update_text_boundary_closing_up(
                      SubSeq(patches, 1, i) \o SubSeq(patches, i + 2, Len(patches)),
                      faces, i, btext)
             ELSE IF bfaces = <<>>
                  THEN [err |-> Exception("IndexError",
                                          "list index out of range", ""),
                        text_boundary |-> TextBlock(0, <<>>)]
                  ELSE update_text_boundary_closing_up(patches, faces, i + 1,
                           Append(btext,
                               [patchname |-> b.patchname,
                                typename |-> b.typename,
                                inGroups |-> b.inGroups,
                                nFaces |-> Len(bfaces),
                                startFace |-> At(bfaces, 0).facei]))

RECURSIVE update_text_boundary(_, _, _, _)
\* update_text_boundary, from patch i on: the boundary block, or the
\* exception of bfaces[0] for a patch without faces
update_text_boundary(patches, faces, i, btext) ==
    IF i >= Len(patches)
    THEN [err |-> NoException, text_boundary |-> TextBlock(Len(btext), btext)]
    ELSE LET b == At(patches, i)
             bfaces == SelectSeq(faces, LAMBDA x : x.mati = i)
         IN  IF b.deleted
             THEN update_text_boundary(patches, faces, i + 1, btext)
             ELSE IF bfaces = <<>>
                  THEN [err |-> Exception("IndexError",
                                          "list index out of range", ""),
                        text_boundary |-> TextBlock(0, <<>>)]
                  ELSE update_text_boundary(patches, faces, i + 1,
                           Append(btext,
                               [patchname |-> b.patchname,
                                typename |-> b.typename,
                                inGroups |-> b.inGroups,
                                nFaces |-> Len(bfaces),
                                startFace |-> At(bfaces, 0).facei]))

\* UG_OT_ExportPolyMesh.execute
ExportPolyMesh_execute ==
    /\ pc \in {"idle", "pm_imported", "pm_import_failed", "pm_exported",
               "pm_export_failed"}
    /\ IF ~ob.exists
       THEN /\ report' = Report("ERROR", "No points/faces were imported", "")
            /\ UNCHANGED <<raised, pc, ugfaces, ugcells, ug_props>>
       ELSE LET points == TextBlock(Len(ob.vertices), ob.vertices)
                fs == update_text_faces(ugfaces, ugcells)
                on == update_text_owner_neighbour(fs.ugfaces)
                bd == update_text_boundary(ugboundaries, fs.ugfaces, 0, <<>>)
            IN  /\ ugfaces' = fs.ugfaces
                /\ ugcells' = fs.ugcells
                /\ IF fs.err # NoException
                   THEN /\ ug_props' = [ug_props EXCEPT !.text_points = points]
                        /\ raised' = fs.err
                        /\ pc' = "pm_export_failed"
                   ELSE /\ ug_props' =
                               [text_points |-> points,
                                text_faces |-> fs.text_faces,
                                text_owner |-> on.text_owner,
                                text_neighbour |-> on.text_neighbour,
                                text_boundary |-> IF bd.err # NoException
                                                  THEN ug_props.text_boundary
                                                  ELSE bd.text_boundary]
                        /\ raised' = bd.err
                        /\ pc' = IF bd.err # NoException THEN "pm_export_failed"
                                 ELSE "pm_exported"
                /\ UNCHANGED report
    /\ UNCHANGED <<text, vtu, ugverts, ugboundaries, facemap, vtuout, mesh,
                   ob, polymesh, fisVars>>

-----------------------------------------------------------------------------
(* Specifications *)

SessionInit ==
    /\ text = NoText
    /\ report = NoReport
    /\ raised = NoException
    /\ pc = "idle"
    /\ vtu = NoVtu
    /\ ugverts = <<>>
    /\ ugfaces = <<>>
    /\ ugcells = <<>>
    /\ ugboundaries = <<>>
    /\ facemap = EmptyMap
    /\ vtuout = NoVtuOut
    /\ mesh = <<>>

NoFis == [called |-> FALSE, err |-> NoException, fis |-> <<>>]

\* no text function has been called
NoCall == [fn |-> ""]
NoReturn == [called |-> FALSE, input |-> <<>>, value |-> <<>>]

CallIdle == callarg = NoCall /\ callret = NoReturn

FisIdle == fisarg = <<>> /\ fisout = NoFis /\ CallIdle

NoPolyMesh == [points |-> <<>>, faces |-> <<>>, owner |-> <<>>,
               neighbour |-> <<>>, boundary |-> <<>>, files |-> {}]

PmIdle == ug_props = NoProps /\ ob = NoObject /\ polymesh = NoPolyMesh

\* a session that imports one file or directory and exports it
Init == SessionInit /\ FisIdle /\ PmIdle

\* the import of a VTU file with a valid text, in a session that has none yet
ImportVtu ==
    pc = "idle" /\ \E file \in VtuFiles : ImportVtu_execute(ValidVtuText, file)

Next ==
    \/ ImportVtu
    \/ vtu_datalists_to_ugdata
    \/ vtu_to_ugdata_finish
    \/ ExportVtu_execute

Spec == Init /\ [][Next]_vars

\* the files of the sessions that edit: two cells that share a face, and one
\* polyhedron
EditFiles ==
    { << Polyhedron(<<0,1,2,3>>, 2, <<<<0,1,2>>, <<0,1,3>>>>),
         Archetype(10, <<0,2,1,4>>) >>,
      << Polyhedron(<<0,1,2>>, 1, <<<<1,2,0>>>>) >> }

ImportForEdit ==
    pc = "idle" /\ \E file \in EditFiles : ImportVtu_execute(ValidVtuText, file)

\* the editing operators flag a cell of the imported mesh as deleted
DeleteCell ==
    /\ pc = "done"
    /\ \E k \in 1..Len(ugcells) :
          /\ ~ugcells[k].deleted
          /\ ugcells' = [ugcells EXCEPT ![k].deleted = TRUE]
    /\ UNCHANGED <<text, report, raised, pc, vtu, ugverts, ugfaces, ugboundaries,
                   facemap, vtuout, mesh, fisVars, pmVars>>

\* the editing operators flag a vertex as deleted, MaxDeletedVerts of them
\* at most
DeleteVertex ==
    /\ pc = "done"
    /\ Cardinality({j \in 1..Len(ugverts) : ugverts[j].deleted}) < MaxDeletedVerts
    /\ \E k \in 1..Len(ugverts) :
          /\ ~ugverts[k].deleted
          /\ ugverts' = [ugverts EXCEPT ![k].deleted = TRUE]
    /\ UNCHANGED <<text, report, raised, pc, vtu, ugfaces, ugcells, ugboundaries,
                   facemap, vtuout, mesh, fisVars, pmVars>>

NextVtuEdit ==
    \/ ImportForEdit
    \/ vtu_datalists_to_ugdata
    \/ vtu_to_ugdata_finish
    \/ DeleteCell
    \/ DeleteVertex
    \/ ExportVtu_execute

\* a session that imports a VTU file and exports it between deletions of
\* cells and vertices
SpecVtuEdit == Init /\ [][NextVtuEdit]_vars

\* the number of vertices of each archetype
VertexCount(vtk_cell_type) ==
    CASE vtk_cell_type = 10 -> 4
      [] vtk_cell_type = 12 -> 8
      [] vtk_cell_type = 13 -> 6
      [] vtk_cell_type = 14 -> 5
      [] vtk_cell_type = 15 -> 10
      [] vtk_cell_type = 16 -> 12

\* the cells of each archetype on distinct vertices of the pool, in steps
\* of s from a
ArchetypeCells ==
    {Archetype(t, [k \in 1..VertexCount(t) |-> (a + s * (k - 1)) % 13]) :
        t \in ArchetypeTypes, a \in 0..12, s \in 1..12}

\* the import of a file of one cell of an archetype
ImportArchetype ==
    pc = "idle" /\ \E cell \in ArchetypeCells :
        ImportVtu_execute(ValidVtuText, <<cell>>)

NextArchetypes ==
    \/ ImportArchetype
    \/ vtu_datalists_to_ugdata
    \/ vtu_to_ugdata_finish

\* a session that imports a file of one cell of an archetype
SpecArchetypes == Init /\ [][NextArchetypes]_vars

\* the vertex lists of the faces whose keys are compared: two or three
\* indices of one and of two digits, an index may repeat
KeyLists == UNION {[1..n -> {1, 2, 11, 12}] : n \in 2..3}

\* the import of a file of two polyhedra with one face each
ImportKeyFaces ==
    pc = "idle" /\ \E a, b \in KeyLists :
        ImportVtu_execute(ValidVtuText,
            <<Polyhedron(a, 1, <<a>>), Polyhedron(b, 1, <<b>>)>>)

NextKeys ==
    \/ ImportKeyFaces
    \/ vtu_datalists_to_ugdata
    \/ vtu_to_ugdata_finish

\* a session that imports two faces, each of its own cell
SpecKeys == Init /\ [][NextKeys]_vars

\* the file of the sessions that try many texts
SampleFiles ==
    { << Polyhedron(<<0,1,2,3>>, 2, <<<<0,1,2>>, <<0,1,3>>>>),
         Archetype(10, <<0,2,1,4>>) >> }

\* a session in which UG_OT_ImportVtu is run on any text, before and after
\* an import
ImportAnyText ==
    \E t \in VtuTexts : \E file \in SampleFiles : ImportVtu_execute(t, file)

NextValidate ==
    \/ ImportAnyText
    \/ vtu_datalists_to_ugdata
    \/ vtu_to_ugdata_finish
    \/ ExportVtu_execute

SpecValidate == Init /\ [][NextValidate]_vars

\* the polyhedron face lists get_polyhedron_fis is called with
Streams == UNION {[1..n -> 0..MaxToken] : n \in 0..MaxStream}

InitFis ==
    SessionInit /\ PmIdle /\ fisarg \in Streams /\ fisout = NoFis /\ CallIdle

\* a call of get_polyhedron_fis
CallGetPolyhedronFis ==
    /\ ~fisout.called
    /\ LET got == get_polyhedron_fis(fisarg)
       IN  fisout' = [called |-> TRUE, err |-> got.err, fis |-> got.fis]
    /\ UNCHANGED <<fisarg, callarg, callret, topoVars, vtuVars, pmVars>>

NextFis == CallGetPolyhedronFis

SpecFis == InitFis /\ [][NextFis]_vars

\* the data lists of up to MaxCells tetrahedra, or polyhedra without faces,
\* over MaxConn connectivities, with any end positions as offsets
DataLists ==
    UNION {{[celltypes |-> ct,
             connectivities |-> [k \in 1..MaxConn |-> k - 1],
             offsets |-> off,
             cellfaces |-> <<0>>,
             cellfaceoffsets |-> [k \in 1..n |-> 0],
             ci |-> 0, conn_index |-> 0, offset_index |-> 0,
             vilists |-> <<>>] :
               ct \in {[k \in 1..n |-> t] : t \in {10, 42}},
               off \in [1..n -> 0..(MaxConn + 1)]} :
             n \in 1..MaxCells}

\* vtu_to_ugdata has read the data lists and made the points
InitDataLists ==
    /\ text = NoText
    /\ report = NoReport
    /\ raised = NoException
    /\ pc = "cells"
    /\ vtu \in DataLists
    /\ ugverts = create_points(<<>>, MaxConn)
    /\ ugfaces = <<>>
    /\ ugcells = <<>>
    /\ ugboundaries = <<>>
    /\ facemap = EmptyMap
    /\ vtuout = NoVtuOut
    /\ mesh = <<>>
    /\ FisIdle
    /\ PmIdle

NextDataLists == vtu_datalists_to_ugdata \/ vtu_to_ugdata_finish

\* the loop of vtu_datalists_to_ugdata over data lists of any offsets
SpecDataLists == InitDataLists /\ [][NextDataLists]_vars

\* the lines of the texts: the tags of two blocks and data lines with and
\* without blanks at their ends
BlockLines ==
    {OpenTag("connectivity"), OpenTag("faces"), CloseTag,
     DataLine(<<"1">>), DataLine(<<"2", " ">>), DataLine(<<" ", "3">>),
     DataLine(<<"4", " ", "5">>)}

BlockTexts == UNION {[1..n -> BlockLines] : n \in 0..MaxTextLines}

InitBlocks ==
    /\ SessionInit /\ PmIdle /\ fisarg = <<>> /\ fisout = NoFis
    /\ callarg \in [fn : {"get_data_array_block"},
                    name : {"connectivity", "faces", "offsets"},
                    text : BlockTexts]
    /\ callret = NoReturn

\* a call of get_data_array_block
CallGetDataArrayBlock ==
    /\ callarg.fn = "get_data_array_block"
    /\ ~callret.called
    /\ callret' = [called |-> TRUE, input |-> callarg.text,
                   value |-> get_data_array_block(callarg.name, callarg.text)]
    /\ UNCHANGED <<callarg, fisarg, fisout, topoVars, vtuVars, pmVars>>

NextBlocks == CallGetDataArrayBlock

SpecBlocks == InitBlocks /\ [][NextBlocks]_vars

\* the lines of the boundary texts: the keyword alone, a group name, lines
\* with a semicolon, and an empty line
BoundaryLines ==
    {<<"inGroups">>, <<"g1">>, <<"g2", ";">>, <<"type", "wall", ";">>, <<>>}

InitIngroup ==
    /\ SessionInit /\ PmIdle /\ fisarg = <<>> /\ fisout = NoFis
    /\ callarg \in [fn : {"polymesh_boundary_ingroup_fix"},
                    text : UNION {[1..n -> BoundaryLines] : n \in 0..MaxTextLines}]
    /\ callret = NoReturn

\* a call of polymesh_boundary_ingroup_fix on the text, and one more on
\* what it made of the text
CallIngroupFix ==
    /\ callarg.fn = "polymesh_boundary_ingroup_fix"
    /\ IF callret.called THEN callret.input = callarg.text ELSE TRUE
    /\ LET lines == IF callret.called THEN callret.value ELSE callarg.text
       IN  callret' = [called |-> TRUE, input |-> lines,
                       value |-> polymesh_boundary_ingroup_fix(lines)]
    /\ UNCHANGED <<callarg, fisarg, fisout, topoVars, vtuVars, pmVars>>

NextIngroup == CallIngroupFix

SpecIngroup == InitIngroup /\ [][NextIngroup]_vars

\* the integer texts of up to MaxScanLines lines
IntTexts ==
    UNION {[1..n -> {OpenLine, CloseLine, IntLine(0), IntLine(1), OtherLine}] :
              n \in 0..MaxScanLines}

InitIntlist ==
    /\ SessionInit /\ PmIdle /\ fisarg = <<>> /\ fisout = NoFis
    /\ callarg \in [fn : {"polymesh_get_intlist"}, text : IntTexts]
    /\ callret = NoReturn

\* a call of polymesh_get_intlist
CallGetIntlist ==
    /\ callarg.fn = "polymesh_get_intlist"
    /\ ~callret.called
    /\ callret' = [called |-> TRUE, input |-> callarg.text,
                   value |-> intlist_lines(callarg.text, FALSE, <<>>)]
    /\ UNCHANGED <<callarg, fisarg, fisout, topoVars, vtuVars, pmVars>>

NextIntlist == CallGetIntlist

SpecIntlist == InitIntlist /\ [][NextIntlist]_vars

\* the vertex lists of the hexahedra: eight distinct vertices of the pool, in
\* steps of s from a
HexVertexLists ==
    {[k \in 1..8 |-> (a + s * (k - 1)) % 9] : a \in 0..8, s \in {1, 2, 4, 5, 7, 8}}

\* the import of a file of one hexahedron
ImportHexahedron ==
    /\ pc = "idle"
    /\ \E vilist \in HexVertexLists :
          ImportVtu_execute(ValidVtuText, <<Archetype(12, vilist)>>)

NextHex ==
    \/ ImportHexahedron
    \/ vtu_datalists_to_ugdata
    \/ vtu_to_ugdata_finish
    \/ ExportVtu_execute

\* a session that imports a file of one hexahedron and exports it
SpecHex == Init /\ [][NextHex]_vars

\* the cells the owner and neighbour blocks of the directories name
PmCellIds == {0, 1}

PatchName(k) == "patch" \o ToString(k)

\* the vertex list of face i and the coordinate triplets of n points
FaceVerts(i) == <<i, i + 1, i + 2>>
Points(n) == [k \in 1..n |-> <<k - 1, 0, 0>>]

RECURSIVE Sum(_)
Sum(q) == IF q = <<>> THEN 0 ELSE Head(q) + Sum(Tail(q))

\* the boundary block of the patches with q[k] faces each, the first of
\* them at face K
Boundary(K, q) ==
    [k \in 1..Len(q) |->
        [patchname |-> PatchName(k - 1), typename |-> "wall", inGroups |-> "",
         nFaces |-> q[k], startFace |-> K + Sum(SubSeq(q, 1, k - 1))]]

\* the ways to split n boundary faces into at most MaxPatches patches, a
\* patch may have no face
PatchSplits(n) ==
    UNION {{q \in [1..len -> 0..n] : Sum(q) = n} : len \in 0..MaxPatches}

\* the directories with M faces of which the first K are internal
PolyMeshDirsOf(M, K) ==
    {[points |-> Points(M + 2),
      faces |-> [k \in 1..M |-> FaceVerts(k - 1)],
      owner |-> o, neighbour |-> nb, boundary |-> Boundary(K, q),
      files |-> Range(filenames)] :
        o \in [1..M -> PmCellIds], nb \in [1..K -> PmCellIds],
        q \in PatchSplits(M - K)}

PolyMeshDirs ==
    UNION {UNION {PolyMeshDirsOf(M, K) : K \in 0..M} : M \in 0..MaxPmFaces}

\* the import of a directory with its five files, in a session that has
\* imported none yet
ImportPolyMesh ==
    pc = "idle" /\ \E d \in PolyMeshDirs : ImportPolyMesh_execute(d)

NextPm == ImportPolyMesh \/ ExportPolyMesh_execute

\* a session that imports a PolyMesh directory and exports it
SpecPm == Init /\ [][NextPm]_vars

\* two directories: two faces of which one is internal, and one boundary face
SampleDirs ==
    {d \in PolyMeshDirsOf(2, 1) :
        d.owner = <<0, 1>> /\ d.neighbour = <<1>> /\ Len(d.boundary) = 1}
    \cup
    {d \in PolyMeshDirsOf(1, 0) : d.owner = <<0>> /\ Len(d.boundary) = 1}

\* the import of a directory with its five files, in a session that has
\* imported none yet
ImportSample ==
    pc = "idle" /\ \E d \in SampleDirs : ImportPolyMesh_execute(d)

\* the import of a directory of which one file is missing
ImportIncomplete ==
    \E d \in SampleDirs : \E f \in Range(filenames) :
        ImportPolyMesh_execute([d EXCEPT !.files = @ \ {f}])

NextPmMissing == ImportSample \/ ImportIncomplete \/ ExportPolyMesh_execute

\* a session in which directories with a missing file are imported, before
\* and after the import of a directory
SpecPmMissing == Init /\ [][NextPmMissing]_vars

\* the import of a directory in a session that has imported one before
ImportAgain ==
    /\ pc \in {"pm_imported", "pm_exported"}
    /\ Len(ugfaces) <= MaxPmFaces
    /\ \E d \in SampleDirs : ImportPolyMesh_execute(d)

NextPmAgain == ImportPolyMesh \/ ImportAgain \/ ExportPolyMesh_execute

\* a session that imports directories one after the other
SpecPmAgain == Init /\ [][NextPmAgain]_vars

\* the boundary blocks for M faces of which K are internal: those of the
\* patch splits, with the startFace of one patch set to any face
ShiftedBoundaries(M, K) ==
    UNION {{[b EXCEPT ![j].startFace = s] : j \in 1..Len(b), s \in 0..M} :
              b \in {Boundary(K, q) : q \in PatchSplits(M - K)}}

\* the directories of cells 0 and 1 with K internal faces owned by cell 0
\* and boundary faces owned by cell 1, with these boundary blocks
ShiftedDirs ==
    UNION {UNION {{[points |-> Points(M + 2),
                    faces |-> [k \in 1..M |-> FaceVerts(k - 1)],
                    owner |-> [k \in 1..M |-> IF k <= K THEN 0 ELSE 1],
                    neighbour |-> [k \in 1..K |-> 1],
                    boundary |-> b,
                    files |-> Range(filenames)] : b \in ShiftedBoundaries(M, K)} :
                  K \in 0..(M - 1)} : M \in 1..MaxPmFaces}

\* the import of such a directory in a session that has imported none yet
ImportShifted ==
    pc = "idle" /\ \E d \in ShiftedDirs : ImportPolyMesh_execute(d)

NextPmBoundary == ImportShifted \/ ExportPolyMesh_execute

\* a session that imports a directory whose boundary block may name faces
\* outside the boundary faces, and exports it
SpecPmBoundary == Init /\ [][NextPmBoundary]_vars

\* the faces of the topologies: internal faces between cells 0 and 1, and
\* boundary faces of cell 1 in a patch, deleted or not
FaceKinds ==
    {[neighbouri |-> 1, mati |-> None, deleted |-> del] : del \in BOOLEAN}
    \cup
    {[neighbouri |-> None, mati |-> m, deleted |-> del] :
        m \in 0..(MaxPatches - 1), del \in BOOLEAN}

\* the topology with these faces and these deleted flags of the patches
TopologyFaces(kinds) ==
    [k \in 1..Len(kinds) |->
        [verts |-> FaceVerts(k - 1),
         owneri |-> IF kinds[k].neighbouri # None THEN 0 ELSE 1,
         neighbouri |-> kinds[k].neighbouri, mati |-> kinds[k].mati,
         facei |-> k - 1, deleted |-> kinds[k].deleted]]

TopologyCells(kinds) ==
    LET all == [k \in 1..Len(kinds) |-> k - 1]
    IN  << [faces |-> SelectSeq(all, LAMBDA i : kinds[i + 1].neighbouri # None),
            celli |-> None, deleted |-> FALSE],
           [faces |-> all, celli |-> None, deleted |-> FALSE] >>

TopologyPatches(dels) ==
    [k \in 1..Len(dels) |->
        [patchname |-> PatchName(k - 1), typename |-> "wall", inGroups |-> "",
         nFaces |-> 0, startFace |-> 0, deleted |-> dels[k]]]

\* a session that exports a topology as import and editing left it
InitPmExport ==
    /\ text = NoText
    /\ report = NoReport
    /\ raised = NoException
    /\ pc = "pm_imported"
    /\ vtu = NoVtu
    /\ ugverts = <<>>
    /\ facemap = EmptyMap
    /\ vtuout = NoVtuOut
    /\ mesh = <<>>
    /\ FisIdle
    /\ ug_props = NoProps
    /\ polymesh = NoPolyMesh
    /\ \E kinds \in UNION {[1..n -> FaceKinds] : n \in 0..MaxPmFaces} :
       \E dels \in [1..MaxPatches -> BOOLEAN] :
          /\ ugfaces = TopologyFaces(kinds)
          /\ ugcells = TopologyCells(kinds)
          /\ ugboundaries = TopologyPatches(dels)
          /\ ob = [exists |-> TRUE, vertices |-> Points(MaxPmFaces + 2),
                   polygons |-> <<>>, materials |-> <<>>]

NextPmExport == ExportPolyMesh_execute

SpecPmExport == InitPmExport /\ [][NextPmExport]_vars

-----------------------------------------------------------------------------
(* The imported mesh, as the file format defines it *)

\* the faces of a cell of the file as absolute vertex index lists
Templates(cell) ==
    IF cell.type = 42 THEN cell.faces
    ELSE IF cell.type \in ArchetypeTypes
    THEN LET fis == FaceTemplates(cell.type)
         IN  [k \in 1..Len(fis) |->
                [j \in 1..Len(fis[k]) |-> At(cell.vilist, fis[k][j])]]
    ELSE <<>>

\* the vertex sets of the faces of the file's cells
MeshVertexSets ==
    UNION {{Range(Templates(mesh[i])[k]) : k \in 1..Len(Templates(mesh[i]))} :
              i \in 1..Len(mesh)}

\* the cells of the file (counted from 1) with a face on vertex set S
CellsWithFace(S) ==
    {i \in 1..Len(mesh) :
        \E k \in 1..Len(Templates(mesh[i])) : Range(Templates(mesh[i])[k]) = S}

\* the face records (counted from 1) on vertex set S
FaceRecords(S) == {f \in 1..Len(ugfaces) : Range(ugfaces[f].ugverts) = S}


-----------------------------------------------------------------------------
(* Claims on the VTU import *)

\* C1: after a completed VTU import, a vertex set that is a face of exactly
\* two cells of the file has exactly one face record; the cell processed
\* first is its owner and the cell processed second is its neighbour.
C1_SharedFaceHasOneRecord ==
    pc = "done" =>
        \A S \in MeshVertexSets :
            Cardinality(CellsWithFace(S)) = 2 =>
                /\ Cardinality(FaceRecords(S)) = 1
                /\ \A f \in FaceRecords(S) :
                      /\ ugfaces[f].owner = SetMin(CellsWithFace(S)) - 1
                      /\ ugfaces[f].neighbour = SetMax(CellsWithFace(S)) - 1

\* C1 witness: an import is complete in which two cells describe one face
\* in different windings, and the face of the second cell found the record
\* of the first.
C1_Witness ==
    /\ pc = "done"
    /\ \E S \in MeshVertexSets :
          /\ Cardinality(CellsWithFace(S)) = 2
          /\ \E i \in CellsWithFace(S) : \E k \in 1..Len(Templates(mesh[i])) :
                /\ Range(Templates(mesh[i])[k]) = S
                /\ \E f \in FaceRecords(S) :
                      /\ ugfaces[f].ugverts # Templates(mesh[i])[k]
                      /\ ugfaces[f].neighbour = i - 1

\* C2: a third cell with a face on a vertex set that already has an owner
\* and a neighbour is never imported: the import fails at that cell, and the
\* face's neighbour never becomes the third cell.
C2_ThirdCellIsRejected ==
    \A S \in MeshVertexSets : \A i \in CellsWithFace(S) :
        Cardinality({j \in CellsWithFace(S) : j < i}) >= 2 =>
            /\ vtu.ci < i
            /\ \A f \in FaceRecords(S) : ugfaces[f].neighbour # i - 1

\* C3: after a completed import every face in a cell's face collection has
\* that cell as owner or neighbour, and every face is in the face collection
\* of its owner and of its neighbour.
C3_CellsAndFacesAgree ==
    pc = "done" =>
        /\ \A c \in 1..Len(ugcells) : \A f \in Range(ugcells[c].ugfaces) :
              \/ At(ugfaces, f).owner = c - 1
              \/ At(ugfaces, f).neighbour = c - 1
        /\ \A f \in 1..Len(ugfaces) :
              /\ ugfaces[f].owner # None
              /\ (f - 1) \in Range(At(ugcells, ugfaces[f].owner).ugfaces)
              /\ ugfaces[f].neighbour # None =>
                    (f - 1) \in Range(At(ugcells, ugfaces[f].neighbour).ugfaces)

\* C6: the step in which vtu_add_cell fails on a polyhedron's face count
\* leaves the cells, the faces and the facemap as they were.
C6_BrokenPolyhedronAddsNothing ==
    [][(pc = "cells" /\ pc' = "failed"
           /\ raised'.msg = "Polyhedron faces list is broken")
        => (ugcells' = ugcells /\ ugfaces' = ugfaces /\ facemap' = facemap)]_vars

\* C7: the error of a cell of unsupported type carries the type code, and it
\* does not end the loop over the cells while cells follow in the file.
C7_UnsupportedTypeIsConfined ==
    raised.msg = "Unsupported VTK cell type" =>
        /\ raised.arg = ToString(At(vtu.celltypes, vtu.ci))
        /\ vtu.ci + 1 < Len(vtu.celltypes) => pc = "cells"

-----------------------------------------------------------------------------
(* Claims on the VTU round trip *)

RECURSIVE Records(_)
\* the complete face records [n, v1 .. vn] at the front of a stream
Records(s) ==
    IF s = <<>> \/ Head(s) > Len(s) - 1 THEN <<>>
    ELSE <<SubSeq(s, 2, Head(s) + 1)>> \o Records(SubSeq(s, Head(s) + 2, Len(s)))

\* the faces of cell i (from 1) of the exported text: the face stream that
\* ends at its face offset and starts at the offset of the cell before it
ExportedFaces(i) ==
    LET block == Concat(vtuout.cellfaces)
        from == IF i = 1 THEN 0 ELSE vtuout.cellfaceoffsets[i - 1]
        stream == Slice(block, from, vtuout.cellfaceoffsets[i])
    IN  IF stream = <<>> THEN <<>> ELSE Records(Tail(stream))

\* the multiset of the vertex sets of a list of faces
VertexSetBag(faces) ==
    [S \in {Range(faces[k]) : k \in 1..Len(faces)} |->
        Cardinality({k \in 1..Len(faces) : Range(faces[k]) = S})]

\* a polyhedron with at least one face, whose face count is the number of
\* its faces
WellFormedPolyhedron(cell) ==
    cell.type = 42 /\ cell.nFaces = Len(cell.faces) /\ cell.nFaces >= 1

Exported == vtuout.nCells # None

-----------------------------------------------------------------------------
(* Claims on the validation *)

\* the text declares the type UnstructuredGrid and the format ascii
DeclaresUnstructuredAscii(t) ==
    /\ ~t.isNone
    /\ \E k \in 1..Len(t.lines) : t.lines[k].type = <<"UnstructuredGrid">>
    /\ \E k \in 1..Len(t.lines) : t.lines[k].format = <<"ascii">>

\* the text declares a type, and no line of it declares another type than
\* UnstructuredGrid or another format than ascii
Accepted(t) ==
    /\ ~t.isNone
    /\ \E k \in 1..Len(t.lines) : t.lines[k].type # <<>>
    /\ \A k \in 1..Len(t.lines) :
          /\ t.lines[k].type \in {<<>>, <<"UnstructuredGrid">>}
          /\ t.lines[k].format \in {<<>>, <<"ascii">>}

\* the errors that name a wrong type or format the text declares
NamingErrors(t) ==
    {"VTK file type is not 'UnstructuredGrid' but " \o t.lines[k].type[1] :
        k \in {j \in 1..Len(t.lines) :
                  t.lines[j].type \notin {<<>>, <<"UnstructuredGrid">>}}}
    \cup
    {"VTK file format is not 'ascii' but " \o t.lines[k].format[1] :
        k \in {j \in 1..Len(t.lines) :
                  t.lines[j].format \notin {<<>>, <<"ascii">>}}}

\* C4 as claimed: the import is in its parsing only for a text that declares
\* the type UnstructuredGrid and the format ascii.
C4_ParsesOnlyDeclaredAscii == pc = "cells" => DeclaresUnstructuredAscii(text)

\* C4 as amended: a run of the import on a new text goes on to the parsing
\* if the text declares a type and declares no type but UnstructuredGrid and
\* no format but ascii (it need not declare a format); on every other text it
\* reports a validation error, which names a wrong value the text declares
\* if there is one, and leaves vertices, faces, cells and patches alone.
C4_InvalidTextChangesNothing ==
    [][text' # text =>
         IF Accepted(text')
         THEN pc' = "cells"
         ELSE /\ report'.level = "ERROR"
              /\ report'.msg = "Validation failed: "
              /\ IF NamingErrors(text') # {}
                 THEN report'.arg \in NamingErrors(text')
                 ELSE report'.arg \in {"Error: No file was selected",
                                       "Error: File does not seem to be in VTU format"}
              /\ pc' = pc
              /\ UNCHANGED <<ugverts, ugfaces, ugcells, ugboundaries>>]_vars

\* C4 witness: after an import, a text that declares the format binary has
\* been rejected and the cells of the import are still there.
C4_Witness ==
    /\ pc = "done"
    /\ ~Accepted(text)
    /\ \E k \in 1..Len(text.lines) : text.lines[k].format = <<"binary">>
    /\ report.level = "ERROR"
    /\ Len(ugcells) = 2

-----------------------------------------------------------------------------
(* Claims on the polyhedron face list *)

\* C5: get_polyhedron_fis raises when the first number of the list is not
\* the number of complete face records that follow it, and else returns
\* exactly these records in their order.
C5_FaceCountIsChecked ==
    fisout.called =>
        IF fisarg = <<>> THEN fisout.err # NoException
        ELSE LET records == Records(Tail(fisarg))
             IN  IF Head(fisarg) # Len(records)
                 THEN fisout.err.type = "ValueError"
                 ELSE fisout.err = NoException /\ fisout.fis = records

\* C5 witness: a list with two complete face records and another declared
\* count has been refused.
C5_Witness ==
    /\ fisout.called
    /\ Len(fisarg) > 1
    /\ Len(Records(Tail(fisarg))) = 2
    /\ Head(fisarg) # 2
    /\ fisout.err.type = "ValueError"

-----------------------------------------------------------------------------
(* Claims on PolyMesh *)

\* a directory with a face, an owner for every face, neighbours among the
\* cells the owners name, and patches that split the boundary faces in order
WellFormedPolyMesh(d) ==
    LET M == Len(d.faces)
        K == Len(d.neighbour)
    IN  /\ M >= 1
        /\ Len(d.owner) = M
        /\ K <= M
        /\ \A k \in 1..K : d.neighbour[k] <= SetMax(Range(d.owner))
        /\ \A k \in 1..Len(d.boundary) :
              d.boundary[k].startFace =
                  IF k = 1 THEN K
                  ELSE d.boundary[k - 1].startFace + d.boundary[k - 1].nFaces
        /\ Sum(Column(d.boundary, "nFaces")) = M - K

\* the name, nFaces and startFace of the entries of a boundary block
PatchRanges(entries) ==
    [k \in 1..Len(entries) |->
        <<entries[k].patchname, entries[k].nFaces, entries[k].startFace>>]

PmExportRan == pc \in {"pm_exported", "pm_export_failed"}

\* C9: the export of a just imported well-formed directory completes, and
\* its blocks have the point count, the nFaces and startFace of every patch
\* and the owner and neighbour of every face of the directory.
C9_PolyMeshRoundTrip ==
    (PmExportRan /\ WellFormedPolyMesh(polymesh)) =>
        /\ pc = "pm_exported"
        /\ ug_props.text_points.count = Len(polymesh.points)
        /\ PatchRanges(ug_props.text_boundary.entries) =
               PatchRanges(polymesh.boundary)
        /\ ug_props.text_owner.entries = polymesh.owner
        /\ ug_props.text_neighbour.entries = polymesh.neighbour

\* the positions of the non-deleted boundary faces and of the non-deleted
\* patches
LiveBoundaryFaces ==
    {k \in 1..Len(ugfaces) : ~ugfaces[k].deleted /\ ugfaces[k].neighbouri = -1}

LivePatches ==
    SelectSeq([k \in 1..Len(ugboundaries) |-> k],
              LAMBDA k : ~ugboundaries[k].deleted)

\* the range of entry j of the exported boundary block
PatchRange(j) ==
    LET e == ug_props.text_boundary.entries[j]
    IN  e.startFace .. (e.startFace + e.nFaces - 1)

\* C10: after an export over a topology whose non-deleted boundary faces
\* all carry the index of a non-deleted patch, the ranges of the exported
\* patches are disjoint, together they are the export indices of the
\* non-deleted boundary faces, and a face in a range is of that patch.
C10_PatchesTileBoundary ==
    (/\ pc = "pm_exported"
     /\ \A k \in LiveBoundaryFaces :
           /\ ugfaces[k].mati \in 0..(Len(ugboundaries) - 1)
           /\ ~At(ugboundaries, ugfaces[k].mati).deleted)
    => LET n == Len(ug_props.text_boundary.entries)
       IN  /\ n = Len(LivePatches)
           /\ \A i, j \in 1..n : i # j => PatchRange(i) \cap PatchRange(j) = {}
           /\ UNION {PatchRange(j) : j \in 1..n} =
                  {ugfaces[k].facei : k \in LiveBoundaryFaces}
           /\ \A j \in 1..n : \A k \in 1..Len(ugfaces) :
                 (~ugfaces[k].deleted /\ ugfaces[k].facei \in PatchRange(j))
                     => ugfaces[k].mati = LivePatches[j] - 1

-----------------------------------------------------------------------------
(* Claims on the hexahedron *)

\* the face loop is the other loop read backwards, from any of its vertices
ReverseWinding(face, other) ==
    /\ Len(face) = Len(other)
    /\ \E r \in 0..(Len(face) - 1) :
          \A k \in 1..Len(face) :
             face[k] = other[((r + Len(face) - k) % Len(face)) + 1]

\* C11: the import of one hexahedron with vertices v0..v7 makes six faces of
\* four vertices, owned by the cell and without neighbour, in the orders
\* [v0,v3,v2,v1], [v0,v1,v5,v4], [v1,v2,v6,v5], [v2,v3,v7,v6], [v3,v0,v4,v7],
\* [v7,v4,v5,v6], each the reverse winding of [v0,v1,v2,v3], [v0,v4,v5,v1],
\* [v1,v5,v6,v2], [v2,v6,v7,v3], [v3,v7,v4,v0], [v7,v6,v5,v4].
C11_HexahedronFaces ==
    (pc = "done" /\ Len(mesh) = 1 /\ mesh[1].type = 12) =>
        LET v == mesh[1].vilist
            claimed == << <<v[1], v[4], v[3], v[2]>>, <<v[1], v[2], v[6], v[5]>>,
                          <<v[2], v[3], v[7], v[6]>>, <<v[3], v[4], v[8], v[7]>>,
                          <<v[4], v[1], v[5], v[8]>>, <<v[8], v[5], v[6], v[7]>> >>
            naive == << <<v[1], v[2], v[3], v[4]>>, <<v[1], v[5], v[6], v[2]>>,
                        <<v[2], v[6], v[7], v[3]>>, <<v[3], v[7], v[8], v[4]>>,
                        <<v[4], v[8], v[5], v[1]>>, <<v[8], v[7], v[6], v[5]>> >>
        IN  /\ Len(ugfaces) = 6
            /\ \A k \in 1..Len(ugfaces) :
                  /\ Len(ugfaces[k].ugverts) = 4
                  /\ ugfaces[k].ugverts = claimed[k]
                  /\ ReverseWinding(ugfaces[k].ugverts, naive[k])
                  /\ ugfaces[k].owner = 0
                  /\ ugfaces[k].neighbour = None

\* C11 witness: a hexahedron whose vertices are not 0..7 in order has been
\* imported.
C11_Witness ==
    /\ pc = "done"
    /\ Len(mesh) = 1 /\ mesh[1].type = 12
    /\ mesh[1].vilist[1] = 3 /\ mesh[1].vilist[2] = 8
    /\ Len(ugfaces) = 6

-----------------------------------------------------------------------------
(* Claims on missing files *)

\* C12: the import of a directory of which a file is missing reports the
\* error and leaves the text blocks and the vertices, faces, cells and
\* patches as they were, whichever file it is.
C12_MissingFileChangesNothing ==
    [][(polymesh' # polymesh /\ polymesh'.files # Range(filenames))
          => /\ report'.level = "ERROR"
             /\ ug_props' = ug_props
             /\ UNCHANGED <<ugverts, ugfaces, ugcells, ugboundaries>>]_vars

\* the offsets of the first n cells do not decrease
NonDecreasing(offsets, n) ==
    \A k \in 1..(n - 1) : offsets[k] <= offsets[k + 1]

\* C15: the vilist of cell ci is connectivities[offsets[ci-1]:offsets[ci]],
\* from 0 for the first cell; where the offsets do not decrease the vilists
\* of the cells follow each other without overlap and make up
\* connectivities[0:offsets[last]].
C15_VilistsAreConsecutiveSlices ==
    LET n == Len(vtu.vilists)
    IN  /\ \A k \in 1..n :
              vtu.vilists[k] =
                  Slice(vtu.connectivities,
                        IF k = 1 THEN 0 ELSE vtu.offsets[k - 1], vtu.offsets[k])
        /\ (n >= 1 /\ NonDecreasing(vtu.offsets, n)) =>
              Concat(vtu.vilists) = Slice(vtu.connectivities, 0, vtu.offsets[n])

\* C15 witness: three cells have been passed, the first and the third with
\* vertices, the third ending before the end of the connectivities.
C15_Witness ==
    /\ Len(vtu.vilists) = 3
    /\ NonDecreasing(vtu.offsets, 3)
    /\ vtu.vilists[1] # <<>>
    /\ vtu.vilists[3] # <<>>
    /\ vtu.offsets[3] < Len(vtu.connectivities)

-----------------------------------------------------------------------------
(* Claims on the PolyMesh import *)

PmImportRan == pc \in {"pm_imported", "pm_import_failed"}

\* C13: the parsing of the blocks of a directory never raises, whatever the
\* owner, neighbour and faces blocks are: polymesh_get_faces completes with
\* a face record for every face that could be parsed.
C13_ParsingNeverRaises ==
    PmImportRan =>
        /\ raised = NoException
        /\ Len(ugfaces) = Len(polymesh.faces)

\* C16: an import into an empty session that completes has made max(owner)+1
\* cells and a face record for every face entry in their order, face i with
\* owner[i], with neighbour[i] exactly when i < len(neighbour), and a polygon
\* for exactly the faces from len(neighbour) on, in their order; and it does
\* complete when every face has an owner and no neighbour is above max(owner).
C16_ImportBuildsCellsAndFaces ==
    /\ (PmImportRan /\ WellFormedPolyMesh(polymesh)) => pc = "pm_imported"
    /\ pc = "pm_imported" =>
          LET M == Len(polymesh.faces)
              K == Len(polymesh.neighbour)
          IN  /\ Len(ugcells) = SetMax(Range(polymesh.owner)) + 1
              /\ Len(ugfaces) = M
              /\ \A i \in 1..M :
                    /\ ugfaces[i].verts = polymesh.faces[i]
                    /\ ugfaces[i].owneri = polymesh.owner[i]
                    /\ ugfaces[i].neighbouri =
                           IF i <= K THEN polymesh.neighbour[i] ELSE -1
              /\ Column(ob.polygons, "vertices") = SubSeq(polymesh.faces, K + 1, M)

\* C16 witness: a directory of two cells with an internal face and boundary
\* faces has been imported.
C16_Witness ==
    /\ pc = "pm_imported"
    /\ Len(polymesh.neighbour) >= 1
    /\ Len(polymesh.faces) > Len(polymesh.neighbour) + 1
    /\ Len(ugcells) = 2
    /\ Len(ob.polygons) >= 2


\* C14: after an import no face that has a neighbour carries a patch index,
\* whatever startFace the patches of the boundary block have.
C14_NoPatchOnInternalFace ==
    PmImportRan =>
        \A i \in 1..Len(ugfaces) :
            ugfaces[i].neighbouri # None => ugfaces[i].mati = None


\* C17: after any sequence of imports in one session the collections hold the
\* most recent directory only: max(owner)+1 cells, a face record for every
\* face entry with face i at index i, and a patch for every patch entry.
C17_CollectionsHoldLastImportOnly ==
    pc = "pm_imported" =>
        /\ Len(ugcells) = SetMax(Range(polymesh.owner)) + 1
        /\ Len(ugfaces) = Len(polymesh.faces)
        /\ \A i \in 1..Len(polymesh.faces) :
              ugfaces[i].verts = polymesh.faces[i]
        /\ Len(ugboundaries) = Len(polymesh.boundary)

-----------------------------------------------------------------------------
(* Claims on the PolyMesh export *)

\* the positions of the non-deleted faces, and of those with a neighbour
LiveFaces == {k \in 1..Len(ugfaces) : ~ugfaces[k].deleted}

LiveInternalFaces == {k \in LiveFaces : ugfaces[k].neighbouri # -1}

\* the export indices of the non-deleted faces are 0..n-1 without repetition,
\* internal faces first, in storage order within the internal and within the
\* boundary faces, and the faces block has the n lines in that order
FacesNumbered ==
    LET n == Cardinality(LiveFaces)
    IN  /\ {ugfaces[k].facei : k \in LiveFaces} = 0..(n - 1)
        /\ \A a, b \in LiveFaces :
              /\ (a \in LiveInternalFaces /\ b \notin LiveInternalFaces)
                    => ugfaces[a].facei < ugfaces[b].facei
              /\ (a < b /\ (a \in LiveInternalFaces <=> b \in LiveInternalFaces))
                    => ugfaces[a].facei < ugfaces[b].facei
        /\ ug_props.text_faces.count = n
        /\ Len(ug_props.text_faces.entries) = n
        /\ \A k \in LiveFaces :
              At(ug_props.text_faces.entries, ugfaces[k].facei)
                  = gen_line(ugfaces[k].verts)

\* C18: an export leaves the non-deleted faces with the export indices
\* 0..n-1, each once, internal before boundary faces and in storage order
\* within both; a deleted face keeps the index it had; the count line of the
\* faces block is n.
C18_ExportNumbersLiveFaces ==
    [][/\ FacesNumbered'
       /\ Len(ugfaces') = Len(ugfaces)
       /\ \A k \in 1..Len(ugfaces) :
             ugfaces[k].deleted => ugfaces'[k].facei = ugfaces[k].facei]_vars

\* C18 witness: a boundary face, a deleted face and an internal face, stored
\* in this order, have been exported: the internal face is face 0, the
\* boundary face is face 1, the deleted face still has index 1.
C18_Witness ==
    /\ pc = "pm_exported"
    /\ Len(ugfaces) = 3
    /\ ~ugfaces[1].deleted /\ ugfaces[1].neighbouri = -1 /\ ugfaces[1].facei = 1
    /\ ugfaces[2].deleted /\ ugfaces[2].facei = 1
    /\ ~ugfaces[3].deleted /\ ugfaces[3].neighbouri # -1 /\ ugfaces[3].facei = 0
    /\ ug_props.text_faces.count = 2

\* C19: after an export entry k of the owner block is the owner of the
\* non-deleted face with export index k, entry k of the neighbour block is
\* the neighbour of the internal face with export index k, and the neighbour
\* block has an entry for the internal faces only.
C19_OwnerEntriesFollowExportIndex ==
    PmExportRan =>
        /\ \A k \in LiveFaces :
              At(ug_props.text_owner.entries, ugfaces[k].facei)
                  = ugfaces[k].owneri
        /\ \A k \in LiveInternalFaces :
              At(ug_props.text_neighbour.entries, ugfaces[k].facei)
                  = ugfaces[k].neighbouri
        /\ Len(ug_props.text_neighbour.entries) = Cardinality(LiveInternalFaces)

\* C20: after a completed export the count line of the owner block, of the neighbour
\* block and of the boundary block is the number of entries of the block.
C20_CountLinesMatchEntries ==
    pc = "pm_exported" =>
        /\ ug_props.text_owner.count = Len(ug_props.text_owner.entries)
        /\ ug_props.text_neighbour.count = Len(ug_props.text_neighbour.entries)
        /\ ug_props.text_boundary.count = Len(ug_props.text_boundary.entries)


\* the positions of the faces that carry the index of the patch stored at
\* position p, deleted or not
FacesOfPatch(p) == {k \in 1..Len(ugfaces) : ugfaces[k].mati = p - 1}

\* C21: a completed export has emitted an entry for every non-deleted patch,
\* in storage order and counted in the count line; the entry of the patch
\* stored at position i is made from the faces whose patch index is i,
\* however many patches before it are deleted.
C21_DeletedPatchKeepsItsSlot ==
    pc = "pm_exported" =>
        LET entries == ug_props.text_boundary.entries
        IN  /\ ug_props.text_boundary.count = Len(LivePatches)
            /\ Len(entries) = Len(LivePatches)
            /\ \A j \in 1..Len(entries) :
                  LET p == LivePatches[j]
                  IN  /\ entries[j].patchname = ugboundaries[p].patchname
                      /\ entries[j].nFaces = Cardinality(FacesOfPatch(p))
                      /\ entries[j].startFace =
                             ugfaces[SetMin(FacesOfPatch(p))].facei

\* C21 witness: the first patch is deleted and the second is exported with
\* its two faces.
C21_Witness ==
    /\ pc = "pm_exported"
    /\ Len(ugboundaries) >= 2
    /\ ugboundaries[1].deleted /\ ~ugboundaries[2].deleted
    /\ Len(ug_props.text_boundary.entries) = 1
    /\ ug_props.text_boundary.entries[1].patchname = ugboundaries[2].patchname
    /\ ug_props.text_boundary.entries[1].nFaces = 2

\* the positions of the non-deleted faces that carry the index of the patch
\* stored at position p
LiveFacesOfPatch(p) == {k \in FacesOfPatch(p) : ~ugfaces[k].deleted}

\* C22: an export completes, and the entry of every non-deleted patch has
\* the number of non-deleted faces of the patch as nFaces, which is 0 for a
\* patch without faces, and the smallest export index of these faces as
\* startFace.
C22_PatchEntriesCountLiveFaces ==
    PmExportRan =>
        /\ pc = "pm_exported"
        /\ Len(ug_props.text_boundary.entries) = Len(LivePatches)
        /\ \A j \in 1..Len(LivePatches) :
              LET p == LivePatches[j]
                  e == ug_props.text_boundary.entries[j]
              IN  /\ e.nFaces = Cardinality(LiveFacesOfPatch(p))
                  /\ LiveFacesOfPatch(p) # {} =>
                        e.startFace =
                            SetMin({ugfaces[k].facei : k \in LiveFacesOfPatch(p)})

-----------------------------------------------------------------------------
(* Claims on the face key *)

\* the two lists have the same indices, each as many times
SameMultiset(a, b) ==
    /\ Len(a) = Len(b)
    /\ \A v \in Range(a) \cup Range(b) :
          Cardinality({k \in 1..Len(a) : a[k] = v})
              = Cardinality({k \in 1..Len(b) : b[k] = v})

\* C26: two vertex lists have the same key exactly when one is a
\* permutation of the other; the second cell's face is then the face the
\* first cell made, which keeps the vertex order the first cell gave it,
\* and otherwise a face of its own.
C26_KeyIsThePermutationClass ==
    (pc = "done" /\ Len(mesh) = 2) =>
        LET a == mesh[1].faces[1]
            b == mesh[2].faces[1]
        IN  /\ (get_vert_string(a) = get_vert_string(b)) <=> SameMultiset(a, b)
            /\ Cardinality(DOMAIN facemap) = IF SameMultiset(a, b) THEN 1 ELSE 2
            /\ Len(ugfaces) = IF SameMultiset(a, b) THEN 1 ELSE 2
            /\ ugfaces[1].ugverts = a
            /\ ugfaces[1].owner = 0
            /\ ugfaces[1].neighbour = IF SameMultiset(a, b) THEN 1 ELSE None

\* C26 witness: the faces [1,12] and [11,2] of two cells have been imported
\* as two faces.
C26_Witness ==
    /\ pc = "done"
    /\ Len(mesh) = 2
    /\ mesh[1].faces = << <<1, 12>> >>
    /\ mesh[2].faces = << <<11, 2>> >>
    /\ Len(ugfaces) = 2
    /\ ugfaces[2].ugverts = <<11, 2>>

-----------------------------------------------------------------------------
(* Claims on the archetypes *)

\* the edges of a face loop, each from a vertex to the next
DirectedEdges(face) ==
    {<<face[k], face[(k % Len(face)) + 1]>> : k \in 1..Len(face)}

\* the templates that have the edge
TemplatesWith(fis, a, b) ==
    {g \in 1..Len(fis) : <<a, b>> \in DirectedEdges(fis[g])}

\* the templates use the local indices 0..n-1, all of them and none twice
\* in a template, and every edge of a template is in no other template and
\* the other way round in exactly one other template
ClosedSurface(fis, n) ==
    /\ UNION {Range(fis[f]) : f \in 1..Len(fis)} = 0..(n - 1)
    /\ \A f \in 1..Len(fis) :
          /\ Cardinality(Range(fis[f])) = Len(fis[f])
          /\ \A e \in DirectedEdges(fis[f]) :
                /\ TemplatesWith(fis, e[1], e[2]) = {f}
                /\ Cardinality(TemplatesWith(fis, e[2], e[1])) = 1
                /\ f \notin TemplatesWith(fis, e[2], e[1])

\* C27: the templates of every archetype are a closed surface wound one
\* way, with 4, 6, 5, 5, 7 and 8 faces; and the import of a cell of an
\* archetype on distinct vertices makes a face with its own key for every
\* template, owned by the cell and without neighbour.
C27_TemplatesAreClosedSurfaces ==
    /\ \A t \in ArchetypeTypes : ClosedSurface(FaceTemplates(t), VertexCount(t))
    /\ [t \in ArchetypeTypes |-> Len(FaceTemplates(t))] =
           (10 :> 4 @@ 12 :> 6 @@ 13 :> 5 @@ 14 :> 5 @@ 15 :> 7 @@ 16 :> 8)
    /\ (pc = "done" /\ Len(mesh) = 1 /\ mesh[1].type \in ArchetypeTypes) =>
          /\ Len(ugfaces) = Len(FaceTemplates(mesh[1].type))
          /\ Cardinality(DOMAIN facemap) = Len(ugfaces)
          /\ \A f \in 1..Len(ugfaces) :
                ugfaces[f].owner = 0 /\ ugfaces[f].neighbour = None

\* C27 witness: a hexagonal prism on twelve distinct vertices has been
\* imported with its eight faces.
C27_Witness ==
    /\ pc = "done"
    /\ Len(mesh) = 1
    /\ mesh[1].type = 16
    /\ Cardinality(Range(mesh[1].vilist)) = 12
    /\ Len(ugfaces) = 8

-----------------------------------------------------------------------------
(* Claims on the VTU export *)

LiveVerts(verts) == {k \in 1..Len(verts) : ~verts[k].deleted}

\* a step of the export: the session has a mesh and no flag changes
ExportStep ==
    /\ pc = "done" /\ pc' = "done"
    /\ ugcells' = ugcells
    /\ LiveVerts(ugverts') = LiveVerts(ugverts)

\* no cell and no face that is not deleted has a deleted vertex
NoDeletedVertexInUse ==
    /\ \A c \in 1..Len(ugcells) : \A j \in 1..Len(ugcells[c].ugverts) :
          ~ugcells[c].deleted => ~At(ugverts, ugcells[c].ugverts[j]).deleted
    /\ \A f \in 1..Len(ugfaces) : \A j \in 1..Len(ugfaces[f].ugverts) :
          ~ugfaces[f].deleted => ~At(ugverts, ugfaces[f].ugverts[j]).deleted

\* C24: an export gives the n vertices that are not deleted the export
\* indices 0..n-1 in storage order and leaves the export index of a deleted
\* vertex as it was; n is the NumberOfPoints and the number of coordinate
\* lines written; and where no cell or face in use has a deleted vertex,
\* every index of the connectivity and faces blocks is in 0..n-1.
C24_ExportIndicesOfLiveVertices ==
    [][ExportStep =>
        LET live == LiveVerts(ugverts)
            n == Cardinality(live)
        IN  /\ \A k \in live :
                  ugverts'[k].ei = Cardinality({j \in live : j < k})
            /\ \A k \in 1..Len(ugverts) :
                  ugverts[k].deleted => ugverts'[k].ei = ugverts[k].ei
            /\ raised' = NoException =>
                  /\ vtuout'.nPoints = n
                  /\ Len(vtuout'.points) = n
                  /\ NoDeletedVertexInUse =>
                        /\ \A c \in 1..Len(vtuout'.connectivities) :
                              Range(vtuout'.connectivities[c]) \subseteq 0..(n - 1)
                        /\ \A c \in 1..Len(vtuout'.cellfaces) :
                              LET records == Records(Tail(vtuout'.cellfaces[c]))
                              IN  \A r \in 1..Len(records) :
                                     Range(records[r]) \subseteq 0..(n - 1)]_vars

\* C24 witness: vertex 6 was deleted after an export and the mesh exported
\* again: vertex 6 still has export index 6, which vertex 7 has now too.
C24_Witness ==
    /\ pc = "done"
    /\ Len(ugverts) >= 8
    /\ ugverts[7].deleted /\ ugverts[7].ei = 6
    /\ ~ugverts[8].deleted /\ ugverts[8].ei = 6
    /\ vtuout.nPoints = Cardinality(LiveVerts(ugverts))
    /\ vtuout.connectivities # <<>>

\* the blocks written describe the cells that are not deleted, in storage
\* order
BlocksDescribeLiveCells(out, cells) ==
    LET live == NotDeleted(cells)
        n == Len(live)
    IN  /\ out.nCells = n
        /\ Len(out.connectivities) = n
        /\ \A k \in 1..n :
              Len(out.connectivities[k]) = Len(live[k].ugverts)
        /\ out.celltypes = [k \in 1..n |-> 42]
        /\ out.offsets =
               running_sum([k \in 1..n |-> Len(out.connectivities[k])], 0)
        /\ Len(out.cellfaces) = n
        /\ \A k \in 1..n :
              /\ Head(out.cellfaces[k]) = Len(live[k].ugfaces)
              /\ Len(Records(Tail(out.cellfaces[k]))) = Len(live[k].ugfaces)
        /\ out.cellfaceoffsets =
               running_sum([k \in 1..n |-> Len(out.cellfaces[k])], 0)

\* C25: an export completes for every topology, one without a cell that is
\* not deleted too, and its connectivity, types, offsets, faces and
\* faceoffsets blocks describe the cells that are not deleted, in storage
\* order, each as a polyhedron of type 42.
C25_ExportDescribesLiveCells ==
    [][ExportStep =>
          /\ raised' = NoException
          /\ BlocksDescribeLiveCells(vtuout', ugcells)]_vars

-----------------------------------------------------------------------------
(* Claims on the text functions *)

RECURSIVE BlockTokens(_, _, _)
\* the numbers of the data lines between an opening tag with the name and
\* the next tag, line by line
BlockTokens(name, lines, inside) ==
    IF lines = <<>> THEN <<>>
    ELSE LET line == Head(lines)
         IN  IF line.kind = "open"
             THEN BlockTokens(name, Tail(lines), line.name = name)
             ELSE IF line.kind = "close"
             THEN BlockTokens(name, Tail(lines), FALSE)
             ELSE (IF inside THEN get_list_from_text(line.chars) ELSE <<>>)
                  \o BlockTokens(name, Tail(lines), inside)

\* C23: get_data_array_block returns the numbers of the lines between the
\* opening tag with the name and the next closing tag, in order, the
\* numbers of different lines apart whether the lines have blanks at their
\* ends or not; it returns the empty list for a name no tag has.
C23_BlockTokensStayApart ==
    (callret.called /\ callarg.fn = "get_data_array_block") =>
        callret.value = BlockTokens(callarg.name, callarg.text, FALSE)


\* C28: polymesh_boundary_ingroup_fix loses no line: the words of the lines
\* it makes are the words of the lines it read, in their order, also where
\* no line with a semicolon follows the keyword; lines before the first
\* keyword are copied as they are; and a call on what it made changes
\* nothing.
C28_IngroupFixLosesNothing ==
    (callret.called /\ callarg.fn = "polymesh_boundary_ingroup_fix") =>
        /\ Concat(callret.value) = Concat(callret.input)
        /\ \A k \in 1..Len(callret.input) :
              (\A j \in 1..k : callret.input[j] # <<"inGroups">>)
                  => /\ k <= Len(callret.value)
                     /\ callret.value[k] = callret.input[k]
        /\ polymesh_boundary_ingroup_fix(callret.value) = callret.value


\* line k of the text is read inside the list: a line before it starts with
\* "(" and no line between the two starts with ")"
ReadInside(lines, k) ==
    \E j \in 1..(k - 1) :
        /\ lines[j].kind = "("
        /\ \A i \in (j + 1)..(k - 1) : lines[i].kind # ")"

\* C29: polymesh_get_intlist returns the integers at the start of the lines
\* read inside the list, in order: a line that starts with "(" enters the
\* list and a line that starts with ")" leaves it; the count line in front
\* of the "(" and an integer line after the ")" are not returned, and a
\* list that is not closed goes on to the end of the text.
C29_IntlistIsTheLinesInside ==
    (callret.called /\ callarg.fn = "polymesh_get_intlist") =>
        LET lines == callarg.text
            inside == SelectSeq([k \in 1..Len(lines) |-> k],
                          LAMBDA k : lines[k].kind = "int" /\ ReadInside(lines, k))
        IN  callret.value = [j \in 1..Len(inside) |-> lines[inside[j]].n]

\* C29 witness: the text of a count line, "(", an entry, ")" and one more
\* integer line has been read as the one entry.
C29_Witness ==
    /\ callret.called
    /\ callarg.fn = "polymesh_get_intlist"
    /\ callarg.text = <<IntLine(1), OpenLine, IntLine(0), CloseLine, IntLine(1)>>
    /\ callret.value = <<0>>

====
